---------------------------- MODULE Spec2Model ----------------------------
(***************************************************************************)
(* Model of the supervisor client protocol engine of                       *)
(* src/Controller/api/supervisor.c.                                        *)
(*                                                                         *)
(* The engine state is the set of file-scope variables of supervisor.c:    *)
(* the node and field registries (linked lists, head first), the pending   *)
(* field-request FIFO, the garbage list, the sent-GET slot and the         *)
(* single-shot command slots.  A public API function runs up to its call   *)
(* of wb_robot_flush_unlocked(); the flush is the suspension point during  *)
(* which the transport invokes the two callbacks of the device,            *)
(* supervisor_write_request (once) and supervisor_read_answer (once per    *)
(* message of the reply frame); the API function then runs its post-flush  *)
(* code and returns.  pc records that position; pc = "idle" is the public  *)
(* API boundary (no supervisor call executing).                            *)
(*                                                                         *)
(* Pointers are addresses drawn from bounded pools; NULL is 0.  Strings    *)
(* that the code takes apart (DEF expressions) are sequences of            *)
(* characters; other strings are atoms.                                    *)
(***************************************************************************)
EXTENDS Integers, Sequences, FiniteSets, TLC

(***************************************************************************)
(* Bounds of the model.                                                    *)
(***************************************************************************)
MaxNodes == 5
MaxUid == 4
MaxFields == 1
MaxCount == 2
MaxVal == 1
MaxQueue == 2
MaxTime == 2
MaxContacts == 1
MaxTag == 1
MaxLabel == 2

NULL == 0

\* What malloc leaves in a member that add_node_to_list does not set.
UNINITIALIZED == -2

NodeAddrs == 1..MaxNodes
FieldAddrs == 1..MaxFields
\* The addresses malloc has for field records: one more than the handles
\* that a controller is given to pass.
FieldPool == 1..(MaxFields + 1)
Uids == 1..MaxUid

\* The NULL char pointer, as opposed to the empty string <<>>.
NullStr == <<"<NULL>">>
NullName == "<NULL>"

\* DEF expressions a controller passes and the simulator reports.
DefExprs == { <<"A">>, <<"B">>, <<"A", ".", "B">> }
FieldNames == { "children", "f", "s", "n", "rotation", "color" }

VARIABLES
  node_list,                    \* registry of nodes, head first
  field_list,                   \* registry of fields, head first
  field_requests_list,          \* pending FIFO, head first (head/tail pointers)
  field_requests_garbage_list,  \* requests written, freed after the reply
  sent_field_get_request,       \* the GET request in flight, or NoRequest
  node_id, node_def_name, proto_id, node_tag, node_get_selected,
  requested_field_name, node_ref, allow_search_in_proto,
  node_to_remove, imported_nodes_number,
  allows_contact_point_internal_node,
  contact_points_node_ref, contact_points_include_descendants,
  root_ref, self_node_ref,
  time,    \* wb_robot_get_time(), in basic time steps
  pc,      \* "idle" | "write" | "sim" | "read" | "crashed"
  call,    \* the API call in flight (pc # "idle") or the last one completed
  frame,   \* the opcodes of the frame written, until the simulator takes it
  reply,   \* the messages of the reply frame not yet dispatched
  asked,   \* history: the (node id, time) pairs of the contact point requests written
  sim_count, \* simulator side: element count of each MF field it was asked about
  simulation_change_mode, simulation_quit, simulation_reset, world_reload,
  simulation_reset_physics, world_to_load,
  supervisor_label,             \* the ids of the labels to send, head first
  simulation_quit_status,
  export_image_filename, export_image_quality,
  virtual_reality_headset_is_used_request, virtual_reality_headset_is_used

regs == <<node_list, field_list>>
queue == <<field_requests_list, field_requests_garbage_list, sent_field_get_request>>
slots == <<node_id, node_def_name, proto_id, node_tag, node_get_selected,
           requested_field_name, node_ref, allow_search_in_proto,
           node_to_remove, imported_nodes_number,
           allows_contact_point_internal_node,
           contact_points_node_ref, contact_points_include_descendants>>
refs == <<root_ref, self_node_ref, time>>
wire == <<frame, reply, asked>>
step_slots == <<simulation_change_mode, simulation_quit, simulation_reset,
                world_reload, simulation_reset_physics, world_to_load>>
globals == <<step_slots, simulation_quit_status, supervisor_label,
             export_image_filename, export_image_quality,
             virtual_reality_headset_is_used_request,
             virtual_reality_headset_is_used>>
vars == <<regs, queue, slots, refs, pc, call, wire, sim_count, globals>>

-----------------------------------------------------------------------------
(***************************************************************************)
(* Small helpers.                                                          *)
(***************************************************************************)
Min(S) == CHOOSE x \in S : \A y \in S : x <= y
Max(S) == CHOOSE x \in S : \A y \in S : x >= y

\* malloc: an address of the pool that no live record uses (the lowest).
Malloc(pool, live) == Min(pool \ live)

NodeRefs(list) == { list[i].ref : i \in 1..Len(list) }
FieldRefs(list) == { list[i].ref : i \in 1..Len(list) }

\* The record a valid handle points to.
NodeAt(list, n) == list[CHOOSE i \in 1..Len(list) : list[i].ref = n]
FieldAt(list, f) == list[CHOOSE i \in 1..Len(list) : list[i].ref = f]

NoRequest == [type |-> "NONE", index |-> -1, is_string |-> FALSE, data |-> 0, field |-> NULL]


-----------------------------------------------------------------------------
(***************************************************************************)
(* Node and field registries (supervisor.c lines 139-331).                 *)
(***************************************************************************)

\* First position of the list whose record satisfies P, 0 when there is none:
\* the linear scan "while (node) { if (...) return node; node = node->next; }".
FirstPos(list, P(_)) ==
  LET S == { i \in 1..Len(list) : P(list[i]) }
  IN  IF S = {} THEN 0 ELSE Min(S)

RefAtPos(list, i) == IF i = 0 THEN NULL ELSE list[i].ref

\* A lookup that finds no field, whatever the registry holds.
FindNoField(list, fieldName, id) == NULL

find_field(list, fieldName, id) ==
  LET Hit(f) == f.node_unique_id = id /\ f.name = fieldName
  IN  RefAtPos(list, FirstPos(list, Hit))

find_node_by_id(list, id) ==
  LET Hit(n) == n.id = id
  IN  RefAtPos(list, FirstPos(list, Hit))

\* A lookup that finds no node, whatever the registry holds.
FindNoNode(list, def_name, parent_proto) == NULL

find_node_by_def(list, def_name, parent_proto) ==
  LET Hit(n) == /\ n.parent_proto = parent_proto
                /\ (parent_proto # NULL \/ ~n.is_proto_internal)
                /\ n.def_name # NullStr
                /\ n.def_name = def_name
  IN  RefAtPos(list, FirstPos(list, Hit))

find_node_by_tag(list, tag) ==
  LET Hit(n) == n.tag = tag
  IN  RefAtPos(list, FirstPos(list, Hit))

is_node_ref_valid(list, n) == n # NULL /\ n \in NodeRefs(list)

is_field_ref_valid(list, f) == f # NULL /\ f \in FieldRefs(list)

\* Unlink and free the node with this id, then orphan its children.
\* A removal that left the children of the removed node as they were.
RemoveWithoutOrphaning(list, uid) ==
  LET Hit(n) == n.id = uid
      pos == FirstPos(list, Hit)
  IN  IF pos = 0 THEN list
      ELSE SubSeq(list, 1, pos - 1) \o SubSeq(list, pos + 1, Len(list))

remove_node_from_list(list, uid) ==
  LET Hit(n) == n.id = uid
      pos == FirstPos(list, Hit)
      kept == IF pos = 0 THEN list
              ELSE SubSeq(list, 1, pos - 1) \o SubSeq(list, pos + 1, Len(list))
  IN  [ i \in 1..Len(kept) |->
          IF kept[i].parent_id = uid THEN [kept[i] EXCEPT !.parent_id = -1]
                                     ELSE kept[i] ]

\* The characters after the last '.' of a DEF expression.
extract_node_def(expr) ==
  IF expr = NullStr THEN NullStr
  ELSE IF Len(expr) = 0 THEN <<>>
  ELSE LET dots == { i \in 1..Len(expr) : expr[i] = "." }
           i == IF dots = {} THEN 0 ELSE Max(dots)
       IN  SubSeq(expr, i + 1, Len(expr))

\* A purge that took the PROTO nodes along with their internals.
PurgeProtoNodesToo(list) ==
  LET Keep(n) == ~n.is_proto_internal /\ ~n.is_proto
  IN  SelectSeq(list, Keep)

remove_internal_proto_nodes(list) ==
  LET Keep(n) == ~n.is_proto_internal
  IN  SelectSeq(list, Keep)

\* A purge that forgot the fields would keep them all.
FieldsNotPurged(list) == list

remove_internal_proto_fields(list) ==
  LET Keep(f) == ~f.is_proto_internal
  IN  SelectSeq(list, Keep)

NewNode(ref, uid, type, def_name, tag, parent_id, is_proto) ==
  [ ref |-> ref, id |-> uid, type |-> type,
    def_name |-> extract_node_def(def_name),
    parent_id |-> parent_id, is_proto |-> is_proto,
    is_proto_internal |-> FALSE, parent_proto |-> NULL, tag |-> tag,
    contact_points_time_stamp |-> -1,
    number_of_contact_points |-> UNINITIALIZED,
    node_id_per_contact_points |-> NULL ]

\* Upsert: refresh the DEF name of a known id, else insert at the head.
add_node_to_list(list, uid, type, def_name, tag, parent_id, is_proto) ==
  LET Hit(n) == n.id = uid
      pos == FirstPos(list, Hit)
  IN  IF pos # 0
      THEN IF def_name # NullStr /\ list[pos].def_name # def_name
           THEN [list EXCEPT ![pos].def_name = extract_node_def(def_name)]
           ELSE list
      ELSE <<NewNode(Malloc(NodeAddrs, NodeRefs(list)), uid, type, def_name,
                     tag, parent_id, is_proto)>> \o list

\* One field of the node with this handle set to a new value.
SetNode(list, n, fld, v) ==
  [ i \in 1..Len(list) |->
      IF list[i].ref = n THEN [list[i] EXCEPT ![fld] = v] ELSE list[i] ]

SetField(list, f, fld, v) ==
  [ i \in 1..Len(list) |->
      IF list[i].ref = f THEN [list[i] EXCEPT ![fld] = v] ELSE list[i] ]


-----------------------------------------------------------------------------
(***************************************************************************)
(* Field types (the WB_SF and WB_MF tags of WbFieldType), by name.  The     *)
(* typed getters, setters and inserters of the API differ only in the type *)
(* tag they pass to check_field and in the member of the union they copy.  *)
(***************************************************************************)
SFTypes == { "SF_BOOL", "SF_INT32", "SF_FLOAT", "SF_VEC2F", "SF_VEC3F",
             "SF_ROTATION", "SF_COLOR", "SF_STRING", "SF_NODE" }
MFTypes == { "MF_BOOL", "MF_INT32", "MF_FLOAT", "MF_VEC2F", "MF_VEC3F",
             "MF_ROTATION", "MF_COLOR", "MF_STRING", "MF_NODE" }

\* (type & WB_MF): WB_MF itself and every MF type have the bit, WB_NO_FIELD
\* and the SF types do not.
HasMFBit(type) == type = "WB_MF" \/ type \in MFTypes

IsStringType(type) == type \in { "SF_STRING", "MF_STRING" }
IsNodeType(type) == type \in { "SF_NODE", "MF_NODE" }
IsVectorType(type) ==
  type \in { "SF_VEC2F", "SF_VEC3F", "SF_ROTATION", "SF_COLOR",
             "MF_VEC2F", "MF_VEC3F", "MF_ROTATION", "MF_COLOR" }

\* The field types the simulated world holds.
WorldFieldTypes == { "SF_FLOAT", "SF_NODE", "MF_FLOAT", "MF_NODE",
                     "SF_ROTATION", "SF_COLOR" }

-----------------------------------------------------------------------------
(***************************************************************************)
(* Pending requests (supervisor.c lines 997-1023).                         *)
(***************************************************************************)
IsImport(action) == action \in { "IMPORT", "IMPORT_FROM_STRING" }

\* The index a request is stored with.
ClampedIndex(f, action, index, clamp_index) ==
  LET offset == IF IsImport(action) THEN 1 ELSE 0
  IN  IF clamp_index /\ f.count # -1 /\ (index >= f.count + offset \/ index < 0)
      THEN 0 ELSE index

\* "(action = IMPORT && f->type == WB_MF_NODE)" assigns: its value is
\* f->type == WB_MF_NODE whatever the action.
RequestIsString(f, action) ==
  \/ IsStringType(f.type)
  \/ action = "IMPORT_FROM_STRING"
  \/ f.type = "MF_NODE"

NewRequest(f, action, index, data, clamp_index) ==
  [ type |-> action,
    index |-> ClampedIndex(f, action, index, clamp_index),
    is_string |-> RequestIsString(f, action),
    data |-> data,
    field |-> f.ref ]

\* A request pushed on the head would be written before the older ones.
create_and_push_field_request(q, f, action, index, data, clamp_index) == << NewRequest(f, action, index, data, clamp_index) >> \o q

create_and_append_field_request(q, f, action, index, data, clamp_index) ==
  Append(q, NewRequest(f, action, index, data, clamp_index))

\* Position in the queue of the first SET on (f, index), 0 when there is none.
QueuedSetPos(q, f, index) ==
  LET Hit(r) == r.field = f /\ r.type = "SET" /\ r.index = index
  IN  FirstPos(q, Hit)


-----------------------------------------------------------------------------
(***************************************************************************)
(* The serializer: supervisor_write_request (supervisor.c lines 445-766).  *)
(* A frame is the sequence of opcodes written, each with its payload.      *)
(***************************************************************************)
NoOp ==
  [ op |-> "", node |-> -1, fid |-> -1, ftype |-> "", internal |-> FALSE,
    has_index |-> FALSE, index |-> -1, data |-> 0,
    def |-> <<>>, name |-> "", num |-> -1, flag |-> FALSE ]

\* Reading through a field pointer.  A pointer to a freed record reads
\* whatever the allocator left there.
FreedField ==
  [ ref |-> NULL, name |-> NullName, type |-> "WB_NO_FIELD", count |-> -1,
    node_unique_id |-> -1, id |-> -1, is_proto_internal |-> FALSE, data |-> 0 ]

Deref(list, f) == IF is_field_ref_valid(list, f) THEN FieldAt(list, f) ELSE FreedField

\* The opcode written for one request of the queue.
FieldOp(r, f) ==
  CASE r.type = "GET" ->
         [ NoOp EXCEPT !.op = "FIELD_GET_VALUE", !.node = f.node_unique_id,
                       !.fid = f.id, !.internal = f.is_proto_internal,
                       !.has_index = (r.index # -1), !.index = r.index ]
    [] r.type = "SET" ->
         [ NoOp EXCEPT !.op = "FIELD_SET_VALUE", !.node = f.node_unique_id,
                       !.fid = f.id, !.ftype = f.type,
                       !.has_index = TRUE, !.index = r.index, !.data = r.data ]
    [] r.type = "IMPORT" ->
         [ NoOp EXCEPT !.op = "FIELD_INSERT_VALUE", !.node = f.node_unique_id,
                       !.fid = f.id,
                       !.has_index = TRUE, !.index = r.index,
                       !.data = IF f.type \in MFTypes THEN r.data ELSE @ ]
    [] r.type = "IMPORT_FROM_STRING" ->
         [ NoOp EXCEPT !.op = "FIELD_IMPORT_NODE_FROM_STRING",
                       !.node = f.node_unique_id, !.fid = f.id,
                       !.has_index = TRUE, !.index = r.index, !.data = r.data ]
    [] r.type = "REMOVE" ->
         [ NoOp EXCEPT !.op = "FIELD_REMOVE_VALUE", !.node = f.node_unique_id,
                       !.fid = f.id, !.has_index = TRUE, !.index = r.index ]

\* The handle-resolution opcode, at most one, in the order of the else-if chain.
ResolutionOps ==
  IF node_id >= 0 THEN
    << [NoOp EXCEPT !.op = "NODE_GET_FROM_ID", !.node = node_id] >>
  ELSE IF node_def_name # NullStr THEN
    << [NoOp EXCEPT !.op = "NODE_GET_FROM_DEF", !.def = node_def_name,
                    !.num = proto_id] >>
  ELSE IF node_tag > 0 THEN
    << [NoOp EXCEPT !.op = "NODE_GET_FROM_TAG", !.num = node_tag] >>
  ELSE IF node_get_selected THEN
    << [NoOp EXCEPT !.op = "NODE_GET_SELECTED"] >>
  ELSE IF requested_field_name # NullName THEN
    << [NoOp EXCEPT !.op = "FIELD_GET_FROM_NAME", !.node = node_ref,
                    !.name = requested_field_name,
                    !.flag = allow_search_in_proto] >>
  ELSE << >>

\* The payload switch of an IMPORT request has a case for each MF type and
\* assert(false) for the others: the process is stopped there, or, built
\* without assertions, goes on having written no payload.
ImportAsserts(q) ==
  \E i \in 1..Len(q) :
     q[i].type = "IMPORT" /\ Deref(field_list, q[i].field).type \notin MFTypes

DrainsAlways == TRUE

\* The queue is drained only in the last branch of the chain.
DrainsQueue ==
  /\ ~(node_id >= 0)
  /\ node_def_name = NullStr
  /\ ~(node_tag > 0)
  /\ ~node_get_selected
  /\ requested_field_name = NullName

QueueOps(q) == [ i \in 1..Len(q) |-> FieldOp(q[i], Deref(field_list, q[i].field)) ]

Reverse(q) == [ i \in 1..Len(q) |-> q[Len(q) + 1 - i] ]

IsGet(r) == r.type = "GET"
IsNotGet(r) == r.type # "GET"

\* A serializer that freed each request as soon as it was written.
GarbageFreedAtOnce(q, garbage) == << >>

\* Each request that is not a GET is pushed on the head of the garbage list.
GarbageAfter(q, garbage) == Reverse(SelectSeq(q, IsNotGet)) \o garbage

SentNotStored(q, sent) == sent
SentCleared(q, sent) == NoRequest

\* Each GET met is stored in the slot; the last one met stays.
SentAfter(q, sent) ==
  LET gets == SelectSeq(q, IsGet)
  IN  IF Len(gets) = 0 THEN sent ELSE gets[Len(gets)]

NodeRemoveOps ==
  IF node_to_remove # NULL
  THEN << [NoOp EXCEPT !.op = "NODE_REMOVE_NODE",
                       !.node = NodeAt(node_list, node_to_remove).id] >>
  ELSE << >>

NodeToRemoveKept(slot) == slot

\* The node-remove slot is cleared once its opcode is written.
NodeToRemoveAfter(slot) == IF slot # NULL THEN NULL ELSE slot

\* The contact points request of the node in the slot.
ContactPointsOps ==
  IF contact_points_node_ref # NULL
  THEN << [ NoOp EXCEPT !.op = "NODE_GET_CONTACT_POINTS",
                        !.node = NodeAt(node_list, contact_points_node_ref).id,
                        !.flag = contact_points_include_descendants ] >>
  ELSE << >>

\* The step-global opcode, at most one, in the order of the first else-if
\* chain.  The simulation mode itself is kept by the robot module.
StepGlobalChosen ==
  IF simulation_change_mode THEN "SIMULATION_CHANGE_MODE"
  ELSE IF simulation_quit THEN "SIMULATION_QUIT"
  ELSE IF simulation_reset THEN "SIMULATION_RESET"
  ELSE IF world_reload THEN "RELOAD_WORLD"
  ELSE IF simulation_reset_physics THEN "SIMULATION_RESET_PHYSICS"
  ELSE IF world_to_load # NullStr THEN "LOAD_WORLD"
  ELSE ""

StepGlobalOps ==
  CASE StepGlobalChosen = "" -> << >>
    [] StepGlobalChosen = "SIMULATION_QUIT" ->
         << [NoOp EXCEPT !.op = StepGlobalChosen, !.num = simulation_quit_status] >>
    [] StepGlobalChosen = "LOAD_WORLD" ->
         << [NoOp EXCEPT !.op = StepGlobalChosen, !.def = world_to_load] >>
    [] OTHER -> << [NoOp EXCEPT !.op = StepGlobalChosen] >>

StepSlotKept(slot, op) == slot

\* Only the slot of the opcode written is cleared.
StepSlotAfter(slot, op) == slot /\ StepGlobalChosen # op

\* One SET_LABEL per label of the list, from its head; the list is freed.
LabelOps ==
  [ i \in 1..Len(supervisor_label) |->
      [NoOp EXCEPT !.op = "SET_LABEL", !.num = supervisor_label[i]] ]

ExportImageOps ==
  IF export_image_filename # NullStr
  THEN << [NoOp EXCEPT !.op = "EXPORT_IMAGE", !.num = export_image_quality,
                       !.def = export_image_filename] >>
  ELSE << >>

HeadsetOps ==
  IF virtual_reality_headset_is_used_request
  THEN << [NoOp EXCEPT !.op = "VIRTUAL_REALITY_HEADSET_IS_USED"] >>
  ELSE << >>

supervisor_write_request ==
  /\ pc = "write"
  /\ frame' = StepGlobalOps
                \o ResolutionOps
                \o (IF DrainsQueue THEN QueueOps(field_requests_list) ELSE << >>)
                \o LabelOps
                \o NodeRemoveOps
                \o ContactPointsOps
                \o ExportImageOps
                \o HeadsetOps
  /\ simulation_change_mode' =
       StepSlotAfter(simulation_change_mode, "SIMULATION_CHANGE_MODE")
  /\ simulation_quit' = StepSlotAfter(simulation_quit, "SIMULATION_QUIT")
  /\ simulation_reset' = StepSlotAfter(simulation_reset, "SIMULATION_RESET")
  /\ world_reload' = StepSlotAfter(world_reload, "RELOAD_WORLD")
  /\ simulation_reset_physics' =
       StepSlotAfter(simulation_reset_physics, "SIMULATION_RESET_PHYSICS")
  /\ world_to_load' =
       IF StepGlobalChosen = "LOAD_WORLD" THEN NullStr ELSE world_to_load
  /\ supervisor_label' = << >>
  /\ export_image_filename' = NullStr
  /\ asked' = asked \cup { << ContactPointsOps[i].node, time >> :
                              i \in 1..Len(ContactPointsOps) }
  /\ IF DrainsQueue
     THEN /\ field_requests_list' = << >>
          /\ field_requests_garbage_list' =
               GarbageAfter(field_requests_list, field_requests_garbage_list)
          /\ sent_field_get_request' =
               SentAfter(field_requests_list, sent_field_get_request)
     ELSE UNCHANGED queue
  /\ node_to_remove' = NodeToRemoveAfter(node_to_remove)
  /\ pc' \in IF DrainsQueue /\ ImportAsserts(field_requests_list)
            THEN { "sim", "crashed" } ELSE { "sim" }
  /\ UNCHANGED << regs, refs, call, reply, sim_count, simulation_quit_status,
                  export_image_quality, virtual_reality_headset_is_used_request,
                  virtual_reality_headset_is_used,
                  node_id, node_def_name, proto_id, node_tag, node_get_selected,
                  requested_field_name, node_ref, allow_search_in_proto,
                  imported_nodes_number, allows_contact_point_internal_node,
                  contact_points_node_ref, contact_points_include_descendants >>

-----------------------------------------------------------------------------
(***************************************************************************)
(* The reply dispatcher: supervisor_read_answer (supervisor.c lines        *)
(* 768-995), one message per invocation.                                   *)
(***************************************************************************)
NoMsg ==
  [ op |-> "", uid |-> 0, type |-> "", tag |-> 0, parent |-> 0,
    is_proto |-> FALSE, internal |-> FALSE, def |-> <<>>, name |-> "",
    fref |-> -1, ftype |-> "WB_NO_FIELD", count |-> -1, val |-> 0 ]

HeadRef(list) == IF Len(list) = 0 THEN NULL ELSE list[1].ref

\* C_CONFIGURE: add_node_to_list(self_uid, WB_NODE_ROBOT, model_name, def_name,
\* 0, is_proto, 0): the is_proto byte is passed in the place of parent_id and 0
\* in the place of is_proto.  The head of the list is then taken as self.
ConfigureNodes(list, m) ==
  LET added == add_node_to_list(list, m.uid, "ROBOT", m.def, 0,
                                IF m.is_proto THEN 1 ELSE 0, FALSE)
  IN  SetNode(added, HeadRef(added), "is_proto_internal", m.internal)

\* C_SUPERVISOR_NODE_GET_FROM_DEF: the DEF string is the one the client holds.
FromDefNodes(list, m) ==
  IF m.uid # 0
  THEN add_node_to_list(list, m.uid, m.type, node_def_name, m.tag, m.parent, m.is_proto)
  ELSE list

\* C_SUPERVISOR_NODE_GET_SELECTED / FROM_ID / FROM_TAG.
ByIdAccepted(m) ==
  m.uid # 0 /\ (~m.internal \/ allows_contact_point_internal_node)

ByIdNodes(list, m) ==
  IF ByIdAccepted(m)
  THEN add_node_to_list(list, m.uid, m.type, m.def, m.tag, m.parent, m.is_proto)
  ELSE list

\* C_SUPERVISOR_FIELD_GET_FROM_NAME: the new field record, inserted at the head.
NewField(list, m) ==
  [ ref |-> Malloc(FieldPool, FieldRefs(list)),
    name |-> requested_field_name,
    type |-> m.ftype,
    count |-> IF HasMFBit(m.ftype) THEN m.count ELSE -1,
    node_unique_id |-> node_ref,
    id |-> m.fref,
    is_proto_internal |-> m.internal,
    data |-> 0 ]

\* C_SUPERVISOR_FIELD_GET_VALUE: the value is stored in the field the sent GET
\* holds; for a node field the node it names is upserted.
GetValueApplies(m) == sent_field_get_request # NoRequest /\ m.ftype # "WB_NO_FIELD"

GetValueFields(list, m) ==
  IF GetValueApplies(m) /\ is_field_ref_valid(list, sent_field_get_request.field)
  THEN SetField(list, sent_field_get_request.field, "data", m.val)
  ELSE list

GetValueNodes(list, m) ==
  IF /\ GetValueApplies(m)
     /\ IsNodeType(Deref(field_list, sent_field_get_request.field).type)
     /\ m.val # 0
  THEN add_node_to_list(list, m.val, m.type, m.def, m.tag, m.parent, m.is_proto)
  ELSE list

\* The field of the sent GET was freed before its answer came: the
\* dispatcher writes through the dangling pointer, which stops the process
\* or goes unnoticed.
WritesFreedField(m) ==
  /\ m.op = "FIELD_GET_VALUE"
  /\ GetValueApplies(m)
  /\ ~is_field_ref_valid(field_list, sent_field_get_request.field)

\* A dispatcher that did not refresh the count would keep the fields.
FieldsNotRefreshed(list, m) == list

\* C_SUPERVISOR_NODE_REMOVE_NODE: refresh the count of the parent field.
RemoveNodeFields(list, m) ==
  LET parent_field == find_field(list, m.name, m.parent)
  IN  IF m.parent >= 0 /\ parent_field # NULL
      THEN SetField(list, parent_field, "count", m.count)
      ELSE list

\* The parent_proto handles of the nodes a purge removes.
PurgedParents(list) ==
  { list[i].parent_proto :
      i \in { j \in 1..Len(list) :
                list[j].is_proto_internal /\ list[j].parent_proto # NULL } }

\* NODE_GET_CONTACT_POINTS: the count and the node ids of the points (one id
\* stands for all the points of a node) go to the node of the slot.
ContactPointsNodes(list, m) ==
  IF is_node_ref_valid(list, contact_points_node_ref)
  THEN [ i \in 1..Len(list) |->
           IF list[i].ref = contact_points_node_ref
           THEN [ list[i] EXCEPT !.number_of_contact_points = m.count,
                                 !.node_id_per_contact_points =
                                    IF m.count > 0 THEN m.uid ELSE @ ]
           ELSE list[i] ]
  ELSE list

\* The reply says that the field asked for, or the node that holds the
\* field read, is not there.
ObjectVanished(m) ==
  \/ m.op = "FIELD_GET_FROM_NAME" /\ m.fref = -1
  \/ m.op = "FIELD_GET_VALUE" /\ m.ftype = "WB_NO_FIELD"

supervisor_read_answer ==
  /\ pc = "read"
  /\ reply # << >>
  /\ LET m == Head(reply) IN
       /\ node_list' =
            CASE m.op = "CONFIGURE" -> ConfigureNodes(node_list, m)
              [] m.op = "NODE_GET_FROM_DEF" -> FromDefNodes(node_list, m)
              [] m.op \in { "NODE_GET_SELECTED", "NODE_GET_FROM_ID",
                            "NODE_GET_FROM_TAG" } -> ByIdNodes(node_list, m)
              [] m.op = "FIELD_GET_VALUE" -> GetValueNodes(node_list, m)
              [] m.op = "NODE_REGENERATED" -> remove_internal_proto_nodes(node_list)
              [] m.op = "NODE_REMOVE_NODE" -> remove_node_from_list(node_list, m.uid)
              [] m.op = "NODE_GET_CONTACT_POINTS" -> ContactPointsNodes(node_list, m)
              [] OTHER -> node_list
       /\ field_list' =
            CASE m.op = "FIELD_GET_FROM_NAME" /\ m.fref # -1 ->
                   << NewField(field_list, m) >> \o field_list
              [] m.op = "FIELD_GET_VALUE" -> GetValueFields(field_list, m)
              [] m.op = "NODE_REGENERATED" -> remove_internal_proto_fields(field_list)
              [] m.op = "NODE_REMOVE_NODE" -> RemoveNodeFields(field_list, m)
              [] OTHER -> field_list
       /\ self_node_ref' =
            IF m.op = "CONFIGURE" THEN HeadRef(node_list') ELSE self_node_ref
       /\ node_id' =
            CASE m.op = "NODE_GET_FROM_DEF" /\ m.uid # 0 -> m.uid
              [] m.op \in { "NODE_GET_SELECTED", "NODE_GET_FROM_ID",
                            "NODE_GET_FROM_TAG" } /\ ByIdAccepted(m) -> m.uid
              [] OTHER -> node_id
       /\ requested_field_name' =
            IF m.op = "FIELD_GET_FROM_NAME" /\ m.fref = -1
            THEN NullName ELSE requested_field_name
       /\ sent_field_get_request' =
            IF m.op = "FIELD_GET_VALUE" THEN NoRequest ELSE sent_field_get_request
       /\ imported_nodes_number' =
            IF m.op = "FIELD_INSERT_VALUE" THEN m.count ELSE imported_nodes_number
       /\ virtual_reality_headset_is_used' =
            IF m.op = "VIRTUAL_REALITY_HEADSET_IS_USED"
            THEN m.val = 1 ELSE virtual_reality_headset_is_used
  \* clean_field_request_garbage_collector()
  /\ field_requests_garbage_list' = << >>
  /\ reply' = Tail(reply)
  /\ call' = IF Head(reply).op = "NODE_REGENERATED" /\ regs' # regs
             THEN [ call EXCEPT !.purged = TRUE,
                                !.parents = @ \cup PurgedParents(node_list) ]
             ELSE IF ObjectVanished(Head(reply))
             THEN [ call EXCEPT !.vanished = TRUE ]
             ELSE call
  /\ pc' \in IF WritesFreedField(Head(reply)) THEN { "read", "crashed" } ELSE { "read" }
  /\ UNCHANGED << field_requests_list, root_ref, time, frame, asked, sim_count,
                  step_slots, simulation_quit_status, supervisor_label,
                  export_image_filename, export_image_quality,
                  virtual_reality_headset_is_used_request,
                  node_def_name, proto_id, node_tag, node_get_selected,
                  node_ref, allow_search_in_proto, node_to_remove,
                  allows_contact_point_internal_node,
                  contact_points_node_ref, contact_points_include_descendants >>

-----------------------------------------------------------------------------
(***************************************************************************)
(* The simulator side of wb_robot_flush_unlocked().  Its code is not part  *)
(* of supervisor.c; it is modelled from the protocol description: it       *)
(* answers each opcode of the frame that expects a reply, in frame order,  *)
(* applies each insertion and removal to its scene tree, and may announce  *)
(* a PROTO regeneration in any reply frame.                                *)
(***************************************************************************)
\* The world: the type and wire id the simulator gives to a field name.
FieldTypeOf(name) ==
  CASE name = "children" -> "MF_NODE"
    [] name = "f" -> "MF_FLOAT"
    [] name = "s" -> "SF_FLOAT"
    [] name = "n" -> "SF_NODE"
    [] name = "rotation" -> "SF_ROTATION"
    [] name = "color" -> "SF_COLOR"
    [] OTHER -> "WB_NO_FIELD"

FieldIdOf(name) ==
  CASE name = "children" -> 0
    [] name = "f" -> 1
    [] name = "s" -> 2
    [] name = "n" -> 3
    [] name = "rotation" -> 4
    [] name = "color" -> 5
    [] OTHER -> -1

FieldNameOf(fid) ==
  IF \E name \in FieldNames : FieldIdOf(name) = fid
  THEN CHOOSE name \in FieldNames : FieldIdOf(name) = fid
  ELSE NullName

\* The fields whose element count the simulator tracks: MF, not of nodes.
CountedNames == { name \in FieldNames :
                    HasMFBit(FieldTypeOf(name)) /\ ~IsNodeType(FieldTypeOf(name)) }
CountKeys == (0..MaxUid) \X CountedNames

\* The scene tree: the robot (uid 1, DEF A); in it a PROTO node (uid 2,
\* DEF B, so A.B as well); in the PROTO node of uid u, u >= 2, one PROTO node
\* of uid u + 1 that is internal to it.  DEF names alternate between A and B.
WorldParent(uid) == uid - 1
WorldIsProto(uid) == uid >= 2
WorldInternal(uid) == uid >= 3
WorldType(uid) ==
  IF uid = 2 THEN "VIEWPOINT" ELSE IF uid = MaxUid THEN "WORLD_INFO" ELSE "SOLID"
WorldDef(uid) == IF uid % 2 = 1 THEN << "A" >> ELSE << "B" >>

\* The node a DEF expression names: in the whole world (proto -1) or among
\* the internal nodes of the PROTO node of uid proto; 0 when there is none.
WorldResolve(def, proto) ==
  LET found(S) == IF S = {} THEN 0 ELSE Min(S)
  IN  IF proto = -1
      THEN found({ uid \in Uids :
                     /\ ~WorldInternal(uid)
                     /\ \/ def = WorldDef(uid)
                        \/ /\ uid > 1
                           /\ def = WorldDef(uid - 1) \o << "." >> \o WorldDef(uid) })
      ELSE found({ uid \in Uids :
                     /\ WorldInternal(uid)
                     /\ WorldParent(uid) = proto
                     /\ def = WorldDef(uid) })

\* The uids a node answer may carry: any, unless the registry pool is full.
AnswerUids ==
  IF Len(node_list) < MaxNodes THEN 0..MaxUid
  ELSE { 0 } \cup { node_list[i].id : i \in 1..Len(node_list) }

NodeMsg(op, uid) ==
  [ NoMsg EXCEPT !.op = op, !.uid = uid, !.type = WorldType(uid),
                 !.parent = WorldParent(uid), !.is_proto = WorldIsProto(uid),
                 !.internal = WorldInternal(uid), !.def = WorldDef(uid) ]

NotFoundMsg(op) == [ NoMsg EXCEPT !.op = op ]

\* The node the expression names, or none (the node may have been deleted).
FromDefAnswers(o) ==
  { NotFoundMsg("NODE_GET_FROM_DEF") } \cup
  { [ NodeMsg("NODE_GET_FROM_DEF", uid) EXCEPT !.internal = FALSE, !.def = << >> ] :
      uid \in ({ WorldResolve(o.def, o.num) } \cap AnswerUids) \ {0} }

ByIdAnswers(op, uids) ==
  { NotFoundMsg(op) } \cup { NodeMsg(op, uid) : uid \in uids \ {0} }

\* The count the simulator reports for a field: the one it tracks, or any
\* if this is the first time it is asked about the field.
CountAnswers(node, name) ==
  IF <<node, name>> \in CountKeys /\ sim_count[<<node, name>>] # -1
  THEN { sim_count[<<node, name>>] }
  ELSE IF HasMFBit(FieldTypeOf(name)) THEN 0..MaxCount
  ELSE { -1 }

\* The simulator resolves the name while the registry holds fewer than room
\* fields.
FieldFromNameAnswers(o, room) ==
  { [ NoMsg EXCEPT !.op = "FIELD_GET_FROM_NAME" ] } \cup
  IF Len(field_list) < room
  THEN { [ NoMsg EXCEPT !.op = "FIELD_GET_FROM_NAME", !.fref = FieldIdOf(o.name),
                        !.ftype = FieldTypeOf(o.name), !.internal = internal,
                        !.count = count ] :
           internal \in { FALSE, o.flag }, count \in CountAnswers(o.node, o.name) }
  ELSE { }

\* Value of a field; field type 0 when the node was deleted.
FieldValueAnswers(o) ==
  LET ftype == FieldTypeOf(FieldNameOf(o.fid))
      value(v) == [ NoMsg EXCEPT !.op = "FIELD_GET_VALUE", !.ftype = ftype, !.val = v ]
  IN  { [ NoMsg EXCEPT !.op = "FIELD_GET_VALUE" ] } \cup
      IF IsNodeType(ftype)
      THEN { value(0) } \cup
           { [ NodeMsg("FIELD_GET_VALUE", uid)
                 EXCEPT !.uid = 0, !.internal = FALSE, !.ftype = ftype, !.val = uid ] :
               uid \in ({ o.node + 1 } \cap AnswerUids) \ {0} }
      ELSE { value(v) : v \in 0..MaxVal }

\* Removal of a node: the node, its parent and field, the new count.
RemovedAnswers(uids, parents, names) ==
  { [ NoMsg EXCEPT !.op = "NODE_REMOVE_NODE", !.uid = uid, !.parent = parent,
                   !.name = name, !.count = count ] :
      uid \in uids, parent \in parents, name \in names, count \in 0..MaxCount }

\* The contact points of a node: their number (-1 if it is not a solid) and
\* the node they belong to.
ContactAnswers(o) ==
  { [ NoMsg EXCEPT !.op = "NODE_GET_CONTACT_POINTS", !.count = count ] :
      count \in -1..0 } \cup
  { [ NoMsg EXCEPT !.op = "NODE_GET_CONTACT_POINTS", !.count = count,
                   !.uid = uid ] :
      count \in 1..MaxContacts, uid \in { o.node + 1 } \cap Uids }

\* The answers to one opcode: a set of message sequences (empty or one long).
AnswersTo(o, room) ==
  CASE o.op = "NODE_GET_FROM_DEF" -> { <<m>> : m \in FromDefAnswers(o) }
    [] o.op = "NODE_GET_FROM_ID" ->
         { <<m>> : m \in ByIdAnswers(o.op, { o.node } \cap AnswerUids) }
    [] o.op \in { "NODE_GET_FROM_TAG", "NODE_GET_SELECTED" } ->
         { <<m>> : m \in ByIdAnswers(o.op, AnswerUids) }
    [] o.op = "FIELD_GET_FROM_NAME" -> { <<m>> : m \in FieldFromNameAnswers(o, room) }
    [] o.op = "FIELD_GET_VALUE" -> { <<m>> : m \in FieldValueAnswers(o) }
    [] o.op = "FIELD_REMOVE_VALUE" /\ IsNodeType(FieldTypeOf(FieldNameOf(o.fid))) ->
         { <<m>> : m \in RemovedAnswers({ o.node + 1 } \cap Uids, { -1, o.node },
                                        { FieldNameOf(o.fid) }) }
    [] o.op \in { "FIELD_INSERT_VALUE", "FIELD_IMPORT_NODE_FROM_STRING" }
         /\ IsNodeType(FieldTypeOf(FieldNameOf(o.fid))) ->
         { << [ NoMsg EXCEPT !.op = "FIELD_INSERT_VALUE", !.count = n ] >> :
             n \in 0..1 }
    [] o.op = "NODE_REMOVE_NODE" ->
         { <<m>> : m \in RemovedAnswers({ o.node }, { -1, WorldParent(o.node) },
                                        { "children" }) }
    [] o.op = "NODE_GET_CONTACT_POINTS" -> { <<m>> : m \in ContactAnswers(o) }
    [] o.op = "VIRTUAL_REALITY_HEADSET_IS_USED" ->
         { << [ NoMsg EXCEPT !.op = o.op, !.val = used ] >> : used \in 0..1 }
    [] OTHER -> { << >> }

RECURSIVE Replies(_, _)
Replies(ops, room) ==
  IF ops = << >> THEN { << >> }
  ELSE { a \o rest : a \in AnswersTo(Head(ops), room),
                      rest \in Replies(Tail(ops), room) }

\* The simulator's element counts after it applied the frame: an insertion
\* or a removal at an index the field has changes the count by one.
CountDelta(o, count) ==
  CASE o.op = "FIELD_INSERT_VALUE" /\ o.index >= 0 /\ o.index <= count -> 1
    [] o.op = "FIELD_REMOVE_VALUE" /\ o.index >= 0 /\ o.index < count -> -1
    [] OTHER -> 0

RECURSIVE ApplyOps(_, _)
ApplyOps(counts, ops) ==
  IF ops = << >> THEN counts
  ELSE LET o == Head(ops)
           key == << o.node, FieldNameOf(o.fid) >>
       IN  ApplyOps(IF key \in CountKeys /\ counts[key] # -1
                    THEN [ counts EXCEPT ![key] = counts[key] + CountDelta(o, counts[key]) ]
                    ELSE counts,
                    Tail(ops))

\* The counts the simulator disclosed in this reply.
RECURSIVE Disclosed(_, _)
Disclosed(counts, msgs) ==
  IF msgs = << >> THEN counts
  ELSE LET m == Head(msgs)
           key == << node_ref, requested_field_name >>
       IN  Disclosed(IF m.op = "FIELD_GET_FROM_NAME" /\ m.fref # -1
                        /\ key \in CountKeys
                     THEN [ counts EXCEPT ![key] = m.count ]
                     ELSE counts,
                     Tail(msgs))

Regenerated == [ NoMsg EXCEPT !.op = "NODE_REGENERATED" ]

Simulation(room) ==
  /\ pc = "sim"
  /\ \E answers \in Replies(frame, room), regenerated \in { "no", "first", "last" } :
       /\ reply' = CASE regenerated = "no" -> answers
                     [] regenerated = "first" -> << Regenerated >> \o answers
                     [] regenerated = "last" -> answers \o << Regenerated >>
       /\ sim_count' = Disclosed(ApplyOps(sim_count, frame), answers)
  /\ frame' = << >>
  /\ pc' = "read"
  /\ UNCHANGED << regs, queue, slots, refs, call, asked, globals >>

Simulate == Simulation(MaxFields)

-----------------------------------------------------------------------------
(***************************************************************************)
(* The public API.  A function that flushes is two steps: the code up to   *)
(* wb_robot_flush_unlocked() and the code after it.  The record call keeps *)
(* the function, its arguments and its result.                             *)
(***************************************************************************)
\* op, the arguments and ret are those of the function; valid: the
\* arguments passed validation; flushed: the call flushed; repeat, prev and
\* first: the call repeats the previous one, which returned the handle prev
\* and flushed if first; head: the head of
\* the node list before the flush; purged and parents: the dispatcher
\* purged PROTO internals from the registries during this call, and the
\* parent_proto handles of the nodes it purged; refused: the field handle of
\* a call that the validation of its arguments turned down.
NoCall ==
  [ op |-> "", node |-> NULL, field |-> NULL, def |-> NullStr, name |-> NullName,
    index |-> -1, val |-> 0, ret |-> NULL, valid |-> FALSE, flushed |-> FALSE,
    repeat |-> FALSE, prev |-> NULL, first |-> FALSE, head |-> NULL,
    purged |-> FALSE, parents |-> { }, refused |-> NULL, arg |-> -1,
    values |-> << >>, undefined |-> FALSE, vanished |-> FALSE,
    mutex |-> 0, unlocked |-> { } ]

\* The step mutex, counted per call (a call that flushes holds it from
\* robot_mutex_lock_step, mutex = 1, to robot_mutex_unlock_step), and the
\* engine state that a call writes while it does not hold the mutex.
robot_mutex_unlock_step(c) == [ c EXCEPT !.mutex = @ - 1 ]
WritesUnlocked(c, written) == [ c EXCEPT !.unlocked = @ \cup written ]

\* The flush has delivered its whole reply frame.
Flushed(op) == pc = "read" /\ reply = << >> /\ call.op = op

ConfigureMsgs ==
  { [ NodeMsg("CONFIGURE", 1) EXCEPT !.type = "ROBOT", !.parent = 0,
                                     !.is_proto = is_proto,
                                     !.internal = internal ] :
      is_proto \in BOOLEAN, internal \in BOOLEAN }

\* wb_supervisor_init() has run and the first frame of the simulator, which
\* carries C_CONFIGURE, is about to be dispatched.
Init ==
  /\ node_list = add_node_to_list(<< >>, 0, "GROUP", NullStr, 0, -1, FALSE)
  /\ field_list = << >>
  /\ field_requests_list = << >>
  /\ field_requests_garbage_list = << >>
  /\ sent_field_get_request = NoRequest
  /\ node_id = -1
  /\ node_def_name = NullStr
  /\ proto_id = -1
  /\ node_tag = -1
  /\ node_get_selected = FALSE
  /\ requested_field_name = NullName
  /\ node_ref = 0
  /\ allow_search_in_proto = FALSE
  /\ node_to_remove = NULL
  /\ imported_nodes_number = -1
  /\ allows_contact_point_internal_node = FALSE
  /\ contact_points_node_ref = NULL
  /\ contact_points_include_descendants = FALSE
  /\ time = 0
  /\ root_ref = HeadRef(node_list)
  /\ self_node_ref = NULL
  /\ pc = "read"
  /\ call = [ NoCall EXCEPT !.op = "wb_robot_init" ]
  /\ frame = << >>
  /\ asked = { }
  /\ reply \in { << m >> : m \in ConfigureMsgs }
  /\ sim_count = [ k \in CountKeys |-> -1 ]
  /\ simulation_change_mode = FALSE
  /\ simulation_quit = FALSE
  /\ simulation_reset = FALSE
  /\ world_reload = FALSE
  /\ simulation_reset_physics = FALSE
  /\ world_to_load = NullStr
  /\ supervisor_label = << >>
  /\ export_image_filename = NullStr
  /\ export_image_quality = 0
  /\ simulation_quit_status = 0
  /\ virtual_reality_headset_is_used_request = FALSE
  /\ virtual_reality_headset_is_used = FALSE

\* The robot is not inside a PROTO.
InitPlain == Init /\ \A i \in 1..Len(reply) : ~reply[i].internal

wb_robot_init_return ==
  /\ Flushed("wb_robot_init")
  /\ pc' = "idle"
  /\ UNCHANGED << regs, queue, slots, refs, call, wire, sim_count, globals >>

\* wb_robot_step(duration): a flush that no supervisor function asked for,
\* after which the simulation time has advanced by the duration (a step of
\* duration 0 exchanges the frames only).
robot_step(durations) ==
  /\ pc = "idle"
  /\ \E duration \in durations :
       /\ time + duration <= MaxTime
       /\ call' = [ NoCall EXCEPT !.op = "wb_robot_step", !.flushed = TRUE,
                                  !.val = duration ]
  /\ pc' = "write"
  /\ UNCHANGED << regs, queue, slots, refs, wire, sim_count, globals >>

wb_robot_step == robot_step({ 0, 1 })

wb_robot_step_return ==
  /\ Flushed("wb_robot_step")
  /\ time' = time + call.val
  /\ pc' = "idle"
  /\ UNCHANGED << regs, queue, slots, root_ref, self_node_ref, call, wire,
                  sim_count, globals >>

\* The functions that set one slot and flush.  The slot is cleared by the
\* serializer, not by the function.
slot_call(op) ==
  /\ pc = "idle"
  /\ call' = [ NoCall EXCEPT !.op = op, !.valid = TRUE, !.flushed = TRUE, !.mutex = 1 ]
  /\ pc' = "write"
  /\ UNCHANGED << regs, queue, slots, refs, wire, sim_count >>

wb_supervisor_simulation_set_mode ==
  /\ slot_call("wb_supervisor_simulation_set_mode")
  /\ simulation_change_mode' = TRUE
  /\ UNCHANGED << simulation_quit, simulation_reset, world_reload,
                  simulation_reset_physics, world_to_load, simulation_quit_status,
                  supervisor_label, export_image_filename, export_image_quality,
                  virtual_reality_headset_is_used_request,
                  virtual_reality_headset_is_used >>

wb_supervisor_simulation_quit ==
  /\ slot_call("wb_supervisor_simulation_quit")
  /\ simulation_quit' = TRUE
  /\ \E status \in 0..1 : simulation_quit_status' = status
  /\ UNCHANGED << simulation_change_mode, simulation_reset, world_reload,
                  simulation_reset_physics, world_to_load,
                  supervisor_label, export_image_filename, export_image_quality,
                  virtual_reality_headset_is_used_request,
                  virtual_reality_headset_is_used >>

wb_supervisor_simulation_reset ==
  /\ slot_call("wb_supervisor_simulation_reset")
  /\ simulation_reset' = TRUE
  /\ UNCHANGED << simulation_change_mode, simulation_quit, world_reload,
                  simulation_reset_physics, world_to_load, simulation_quit_status,
                  supervisor_label, export_image_filename, export_image_quality,
                  virtual_reality_headset_is_used_request,
                  virtual_reality_headset_is_used >>

wb_supervisor_world_reload ==
  /\ slot_call("wb_supervisor_world_reload")
  /\ world_reload' = TRUE
  /\ UNCHANGED << simulation_change_mode, simulation_quit, simulation_reset,
                  simulation_reset_physics, world_to_load, simulation_quit_status,
                  supervisor_label, export_image_filename, export_image_quality,
                  virtual_reality_headset_is_used_request,
                  virtual_reality_headset_is_used >>

wb_supervisor_simulation_reset_physics ==
  /\ slot_call("wb_supervisor_simulation_reset_physics")
  /\ simulation_reset_physics' = TRUE
  /\ UNCHANGED << simulation_change_mode, simulation_quit, simulation_reset,
                  world_reload, world_to_load, simulation_quit_status,
                  supervisor_label, export_image_filename, export_image_quality,
                  virtual_reality_headset_is_used_request,
                  virtual_reality_headset_is_used >>

\* A NULL or empty file name is turned down.
WorldFiles == { NullStr, << >>, << "w", ".", "wbt" >> }

wb_supervisor_world_load ==
  /\ \E filename \in WorldFiles :
       IF filename = NullStr \/ filename = << >>
       THEN /\ pc = "idle"
            /\ call' = [ NoCall EXCEPT !.op = "wb_supervisor_world_load", !.def = filename ]
            /\ UNCHANGED << regs, queue, slots, refs, pc, wire, sim_count, world_to_load >>
       ELSE /\ slot_call("wb_supervisor_world_load")
            /\ world_to_load' = filename
  /\ UNCHANGED << simulation_change_mode, simulation_quit, simulation_reset,
                  world_reload, simulation_reset_physics, simulation_quit_status,
                  supervisor_label, export_image_filename, export_image_quality,
                  virtual_reality_headset_is_used_request,
                  virtual_reality_headset_is_used >>

\* wb_supervisor_set_label: the label with this id is updated where it is,
\* a new one is inserted first.  Of a label the model keeps the id.
LabelIds == 1..MaxLabel

LabelsAfterSet(labels, id) ==
  IF \E i \in 1..Len(labels) : labels[i] = id THEN labels ELSE << id >> \o labels

wb_supervisor_set_label ==
  /\ slot_call("wb_supervisor_set_label")
  /\ \E id \in LabelIds : supervisor_label' = LabelsAfterSet(supervisor_label, id)
  /\ UNCHANGED << step_slots, simulation_quit_status, export_image_filename,
                  export_image_quality, virtual_reality_headset_is_used_request,
                  virtual_reality_headset_is_used >>

ImageFiles == { NullStr, << >>, << "i", ".", "jpg" >> }
Qualities == { 0, 1, 100, 101 }

wb_supervisor_export_image ==
  /\ \E filename \in ImageFiles, quality \in Qualities :
       IF filename = NullStr \/ filename = << >> \/ quality < 1 \/ quality > 100
       THEN /\ pc = "idle"
            /\ call' = [ NoCall EXCEPT !.op = "wb_supervisor_export_image", !.def = filename ]
            /\ UNCHANGED << regs, queue, slots, refs, pc, wire, sim_count,
                            export_image_filename, export_image_quality >>
       ELSE /\ slot_call("wb_supervisor_export_image")
            /\ export_image_filename' = filename
            /\ export_image_quality' = quality
  /\ UNCHANGED << step_slots, simulation_quit_status, supervisor_label,
                  virtual_reality_headset_is_used_request,
                  virtual_reality_headset_is_used >>

SlotCalls ==
  { "wb_supervisor_simulation_set_mode", "wb_supervisor_simulation_quit",
    "wb_supervisor_simulation_reset", "wb_supervisor_world_reload",
    "wb_supervisor_simulation_reset_physics", "wb_supervisor_world_load",
    "wb_supervisor_set_label", "wb_supervisor_export_image" }

\* After the flush these functions unlock and return.
slot_call_return ==
  /\ pc = "read" /\ reply = << >> /\ call.op \in SlotCalls
  /\ call' = robot_mutex_unlock_step(call)
  /\ pc' = "idle"
  /\ UNCHANGED << regs, queue, slots, refs, wire, sim_count, globals >>

wb_supervisor_virtual_reality_headset_is_used ==
  /\ slot_call("wb_supervisor_virtual_reality_headset_is_used")
  /\ virtual_reality_headset_is_used_request' = TRUE
  /\ UNCHANGED << step_slots, simulation_quit_status, supervisor_label,
                  export_image_filename, export_image_quality,
                  virtual_reality_headset_is_used >>

wb_supervisor_virtual_reality_headset_is_used_return ==
  /\ Flushed("wb_supervisor_virtual_reality_headset_is_used")
  /\ virtual_reality_headset_is_used_request' = FALSE
  /\ call' = [ robot_mutex_unlock_step(call)
                 EXCEPT !.ret = IF virtual_reality_headset_is_used THEN 1 ELSE 0 ]
  /\ pc' = "idle"
  /\ UNCHANGED << regs, queue, slots, refs, wire, sim_count,
                  step_slots, simulation_quit_status, supervisor_label,
                  export_image_filename, export_image_quality,
                  virtual_reality_headset_is_used >>

\* wb_supervisor_node_get_root returns root_ref as it is.
wb_supervisor_node_get_root ==
  /\ pc = "idle"
  /\ call' = [ NoCall EXCEPT !.op = "wb_supervisor_node_get_root",
                             !.valid = TRUE, !.ret = root_ref ]
  /\ UNCHANGED << regs, queue, slots, refs, pc, wire, sim_count, globals >>

\* wb_supervisor_node_get_self returns self_node_ref as it is.
wb_supervisor_node_get_self ==
  /\ pc = "idle"
  /\ call' = [ NoCall EXCEPT !.op = "wb_supervisor_node_get_self",
                             !.valid = TRUE, !.ret = self_node_ref ]
  /\ UNCHANGED << regs, queue, slots, refs, pc, wire, sim_count, globals >>

DefArgs == DefExprs \cup { NullStr, << >> }
NodeArgs == NodeAddrs \cup { NULL }

\* The slots a handle resolution leaves alone.
field_slots == << requested_field_name, node_ref, allow_search_in_proto,
                  node_to_remove, imported_nodes_number,
                  allows_contact_point_internal_node, node_tag, node_get_selected,
                  contact_points_node_ref, contact_points_include_descendants >>

wb_supervisor_node_get_from_def ==
  /\ pc = "idle"
  /\ \E def \in DefArgs :
       LET c == [ NoCall EXCEPT !.op = "wb_supervisor_node_get_from_def" ]
           result == find_node_by_def(node_list, def, NULL)
           again == /\ call.op = "wb_supervisor_node_get_from_def"
                    /\ call.def = def /\ call.ret # NULL
           known == [ c EXCEPT !.def = def, !.valid = TRUE, !.repeat = again,
                               !.prev = IF again THEN call.ret ELSE NULL,
                               !.first = again /\ call.flushed ]
       IN  IF def = NullStr \/ def = << >> THEN
             /\ call' = c
             /\ UNCHANGED << node_def_name, node_id, pc >>
           ELSE IF result # NULL THEN
             /\ call' = [ known EXCEPT !.ret = result ]
             /\ UNCHANGED << node_def_name, node_id, pc >>
           ELSE
             /\ node_def_name' = def
             /\ node_id' = -1
             /\ call' = [ known EXCEPT !.flushed = TRUE, !.mutex = 1 ]
             /\ pc' = "write"
  /\ UNCHANGED << regs, queue, refs, wire, sim_count, globals, proto_id, field_slots >>

wb_supervisor_node_get_from_def_return ==
  /\ Flushed("wb_supervisor_node_get_from_def")
  /\ call' = [ robot_mutex_unlock_step(call) EXCEPT !.ret = IF node_id >= 0
                                   THEN find_node_by_id(node_list, node_id)
                                   ELSE NULL ]
  /\ node_def_name' = NullStr
  /\ node_id' = -1
  /\ pc' = "idle"
  /\ UNCHANGED << regs, queue, refs, wire, sim_count, globals, proto_id, field_slots >>

node_get_from_proto_def(nodes, defs) ==
  /\ pc = "idle"
  /\ \E node \in nodes, def \in defs :
       LET c == [ NoCall EXCEPT !.op = "wb_supervisor_node_get_from_proto_def" ]
           result == find_node_by_def(node_list, def, node)
           known == [ c EXCEPT !.node = node, !.def = def, !.valid = TRUE ]
       IN  IF \/ def = NullStr \/ def = << >>
              \/ ~is_node_ref_valid(node_list, node)
              \/ ~NodeAt(node_list, node).is_proto
           THEN
             /\ call' = c
             /\ UNCHANGED << node_def_name, node_id, proto_id, pc >>
           ELSE IF result # NULL THEN
             /\ call' = [ c EXCEPT !.valid = TRUE, !.ret = result ]
             /\ UNCHANGED << node_def_name, node_id, proto_id, pc >>
           ELSE
             /\ node_def_name' = def
             /\ node_id' = -1
             /\ proto_id' = NodeAt(node_list, node).id
             /\ call' = [ known EXCEPT !.flushed = TRUE, !.mutex = 1 ]
             /\ pc' = "write"
  /\ UNCHANGED << regs, queue, refs, wire, sim_count, globals, field_slots >>

wb_supervisor_node_get_from_proto_def == node_get_from_proto_def(NodeArgs, DefArgs)

wb_supervisor_node_get_from_proto_def_return ==
  /\ Flushed("wb_supervisor_node_get_from_proto_def")
  /\ LET result == IF node_id >= 0 THEN find_node_by_id(node_list, node_id) ELSE NULL
     IN  /\ call' = [ robot_mutex_unlock_step(call) EXCEPT !.ret = result, !.node = NULL, !.def = NullStr ]
         /\ node_list' =
              IF result # NULL
              THEN SetNode(SetNode(node_list, result, "is_proto_internal", TRUE),
                           result, "parent_proto", call.node)
              ELSE node_list
  /\ node_def_name' = NullStr
  /\ node_id' = -1
  /\ proto_id' = -1
  /\ pc' = "idle"
  /\ UNCHANGED << field_list, queue, refs, wire, sim_count, globals, field_slots >>

\* The robot has the device tags 0..MaxTag; a tag at or above the number of
\* devices is turned down.
DeviceTags == 0..(MaxTag + 1)

wb_supervisor_node_get_from_device ==
  /\ pc = "idle"
  /\ \E tag \in DeviceTags :
       LET c == [ NoCall EXCEPT !.op = "wb_supervisor_node_get_from_device",
                                !.arg = tag ]
           result == find_node_by_tag(node_list, tag)
       IN  IF tag >= MaxTag + 1 THEN
             /\ call' = c
             /\ UNCHANGED << node_tag, node_id, pc >>
           ELSE IF result # NULL THEN
             /\ call' = [ c EXCEPT !.valid = TRUE, !.ret = result ]
             /\ UNCHANGED << node_tag, node_id, pc >>
           ELSE
             /\ node_tag' = tag
             /\ node_id' = -1
             /\ call' = [ c EXCEPT !.valid = TRUE, !.flushed = TRUE, !.mutex = 1 ]
             /\ pc' = "write"
  /\ UNCHANGED << regs, queue, refs, wire, sim_count, globals, node_def_name,
                  proto_id, node_get_selected, requested_field_name, node_ref,
                  allow_search_in_proto, node_to_remove, imported_nodes_number,
                  allows_contact_point_internal_node, contact_points_node_ref,
                  contact_points_include_descendants >>

wb_supervisor_node_get_from_device_return ==
  /\ Flushed("wb_supervisor_node_get_from_device")
  /\ call' = [ robot_mutex_unlock_step(call) EXCEPT !.ret = IF node_id >= 0
                                   THEN find_node_by_id(node_list, node_id)
                                   ELSE NULL ]
  /\ node_tag' = -1
  /\ node_id' = -1
  /\ pc' = "idle"
  /\ UNCHANGED << regs, queue, refs, wire, sim_count, globals, node_def_name,
                  proto_id, node_get_selected, requested_field_name, node_ref,
                  allow_search_in_proto, node_to_remove, imported_nodes_number,
                  allows_contact_point_internal_node, contact_points_node_ref,
                  contact_points_include_descendants >>

wb_supervisor_node_get_selected ==
  /\ pc = "idle"
  /\ node_get_selected' = TRUE
  /\ node_id' = -1
  /\ call' = [ NoCall EXCEPT !.op = "wb_supervisor_node_get_selected",
                             !.valid = TRUE, !.flushed = TRUE, !.mutex = 1 ]
  /\ pc' = "write"
  /\ UNCHANGED << regs, queue, refs, wire, sim_count, globals, node_def_name,
                  proto_id, node_tag, requested_field_name, node_ref,
                  allow_search_in_proto, node_to_remove, imported_nodes_number,
                  allows_contact_point_internal_node, contact_points_node_ref,
                  contact_points_include_descendants >>

wb_supervisor_node_get_selected_return ==
  /\ Flushed("wb_supervisor_node_get_selected")
  /\ call' = [ robot_mutex_unlock_step(call) EXCEPT !.ret = IF node_id >= 0
                                   THEN find_node_by_id(node_list, node_id)
                                   ELSE NULL ]
  /\ node_id' = -1
  /\ node_get_selected' = FALSE
  /\ pc' = "idle"
  /\ UNCHANGED << regs, queue, refs, wire, sim_count, globals, node_def_name,
                  proto_id, node_tag, requested_field_name, node_ref,
                  allow_search_in_proto, node_to_remove, imported_nodes_number,
                  allows_contact_point_internal_node, contact_points_node_ref,
                  contact_points_include_descendants >>

\* node_get_from_id(id), shared by wb_supervisor_node_get_from_id and
\* wb_supervisor_node_get_parent_node.
node_get_from_id(c, id) ==
  LET result == find_node_by_id(node_list, id)
  IN  IF result # NULL THEN
        /\ call' = [ c EXCEPT !.ret = result ]
        /\ UNCHANGED << node_id, pc >>
      ELSE
        /\ node_id' = id
        /\ call' = [ c EXCEPT !.flushed = TRUE, !.mutex = 1, !.head = HeadRef(node_list) ]
        /\ pc' = "write"

node_get_from_id_return ==
  /\ call' = [ robot_mutex_unlock_step(call) EXCEPT !.ret = IF HeadRef(node_list) # call.head
                                   THEN HeadRef(node_list)
                                   ELSE find_node_by_id(node_list, call.index),
                           !.head = NULL, !.node = NULL, !.index = -1 ]
  /\ node_id' = -1
  /\ pc' = "idle"
  /\ UNCHANGED << regs, queue, refs, wire, sim_count, globals, node_def_name, proto_id,
                  field_slots >>

wb_supervisor_node_get_from_id ==
  /\ pc = "idle"
  /\ \E id \in -1..MaxUid :
       LET c == [ NoCall EXCEPT !.op = "wb_supervisor_node_get_from_id" ]
       IN  IF id < 0
           THEN call' = c /\ UNCHANGED << node_id, pc >>
           ELSE node_get_from_id([ c EXCEPT !.index = id, !.valid = TRUE ], id)
  /\ UNCHANGED << regs, queue, refs, wire, sim_count, globals, node_def_name, proto_id,
                  field_slots >>

wb_supervisor_node_get_from_id_return ==
  /\ Flushed("wb_supervisor_node_get_from_id")
  /\ node_get_from_id_return

wb_supervisor_node_get_parent_node ==
  /\ pc = "idle"
  /\ \E node \in NodeArgs :
       LET c == [ NoCall EXCEPT !.op = "wb_supervisor_node_get_parent_node" ]
       IN  IF ~is_node_ref_valid(node_list, node)
           THEN call' = c /\ UNCHANGED << node_id, pc >>
           ELSE node_get_from_id([ c EXCEPT !.node = node, !.valid = TRUE,
                                            !.index = NodeAt(node_list, node).parent_id ],
                                 NodeAt(node_list, node).parent_id)
  /\ UNCHANGED << regs, queue, refs, wire, sim_count, globals, node_def_name, proto_id,
                  field_slots >>

wb_supervisor_node_get_parent_node_return ==
  /\ Flushed("wb_supervisor_node_get_parent_node")
  /\ node_get_from_id_return

AnyRegisteredNode(node) == is_node_ref_valid(node_list, node)

\* The two checks that wb_supervisor_node_remove makes before it takes the
\* step lock.
RemovableNode(node) ==
  /\ is_node_ref_valid(node_list, node)
  /\ NodeAt(node_list, node).id # 0
  /\ NodeAt(node_list, node).type \notin { "VIEWPOINT", "WORLD_INFO" }

wb_supervisor_node_remove ==
  /\ pc = "idle"
  /\ \E node \in NodeArgs :
       LET c == [ NoCall EXCEPT !.op = "wb_supervisor_node_remove" ]
       IN  IF ~RemovableNode(node)
           THEN /\ call' = [ c EXCEPT !.refused = node ]
                /\ UNCHANGED << node_to_remove, pc >>
           ELSE /\ node_to_remove' = node
                /\ call' = [ c EXCEPT !.node = node, !.valid = TRUE, !.flushed = TRUE, !.mutex = 1,
                                      !.index = NodeAt(node_list, node).id ]
                /\ pc' = "write"
  /\ UNCHANGED << regs, queue, refs, wire, sim_count, globals, node_id, node_def_name,
                  proto_id, node_tag, node_get_selected, requested_field_name,
                  node_ref, allow_search_in_proto, imported_nodes_number,
                  allows_contact_point_internal_node,
                  contact_points_node_ref, contact_points_include_descendants >>

wb_supervisor_node_remove_return ==
  /\ Flushed("wb_supervisor_node_remove")
  /\ call' = [ robot_mutex_unlock_step(call) EXCEPT !.node = NULL, !.index = -1 ]
  /\ pc' = "idle"
  /\ UNCHANGED << regs, queue, slots, refs, wire, sim_count, globals >>

\* The contact point queries.  What they leave alone:
contact_frame == << field_list, queue, refs, wire, sim_count, globals, node_def_name,
                   proto_id, node_tag, node_get_selected, requested_field_name,
                   node_ref, allow_search_in_proto, node_to_remove,
                   imported_nodes_number >>

\* Reading number_of_contact_points: a member that was never written holds
\* whatever malloc left there.
CountsRead(n) ==
  IF n.number_of_contact_points = UNINITIALIZED
  THEN -1..MaxContacts
  ELSE { n.number_of_contact_points }

\* Reading the node after the flush: a record that a reply of the flush
\* freed reads as whatever the allocator left there.
NodeAfterFlush(node) ==
  IF is_node_ref_valid(node_list, node)
  THEN { NodeAt(node_list, node) }
  ELSE { [ NewNode(node, 0, "", NullStr, 0, -1, FALSE)
             EXCEPT !.number_of_contact_points = count,
                    !.node_id_per_contact_points = id ] :
           count \in -1..MaxContacts, id \in Uids }

\* A test that found every cache stale.
AlwaysStale(node) == TRUE

\* t > node->contact_points_time_stamp
CacheIsStale(node) == time > NodeAt(node_list, node).contact_points_time_stamp

\* node->contact_points && index < node->number_of_contact_points
HasContactPoint(n, index) ==
  n.number_of_contact_points > 0 /\ index < n.number_of_contact_points

\* The common start of the three queries: a stale cache is stamped with the
\* time and the request goes out.
contact_points_refresh(c, node, include_descendants) ==
  /\ node_list' = SetNode(node_list, node, "contact_points_time_stamp", time)
  /\ contact_points_node_ref' = node
  /\ contact_points_include_descendants' = include_descendants
  /\ call' = [ WritesUnlocked(c, { "contact_points_time_stamp" })
                 EXCEPT !.flushed = TRUE, !.mutex = 1 ]
  /\ pc' = "write"

node_get_number_of_contact_points(nodes) ==
  /\ pc = "idle"
  /\ \E node \in nodes, include_descendants \in BOOLEAN :
       LET c == [ NoCall EXCEPT !.op = "wb_supervisor_node_get_number_of_contact_points",
                                !.ret = -1 ]
           known == [ c EXCEPT !.node = node, !.valid = TRUE ]
       IN  IF ~is_node_ref_valid(node_list, node) THEN
             /\ call' = c
             /\ UNCHANGED << node_list, contact_points_node_ref,
                             contact_points_include_descendants, pc >>
           ELSE IF CacheIsStale(node) THEN
             contact_points_refresh(known, node, include_descendants)
           ELSE
             /\ \E count \in CountsRead(NodeAt(node_list, node)) :
                  call' = [ known EXCEPT !.ret = count ]
             /\ UNCHANGED << node_list, contact_points_node_ref,
                             contact_points_include_descendants, pc >>
  /\ UNCHANGED << contact_frame, node_id, allows_contact_point_internal_node >>

wb_supervisor_node_get_number_of_contact_points == node_get_number_of_contact_points(NodeArgs)

wb_supervisor_node_get_number_of_contact_points_return ==
  /\ Flushed("wb_supervisor_node_get_number_of_contact_points")
  /\ contact_points_node_ref' = NULL
  /\ \E n \in NodeAfterFlush(call.node) :
       \E count \in CountsRead(n) : call' = [ robot_mutex_unlock_step(call) EXCEPT !.ret = count ]
  /\ pc' = "idle"
  /\ UNCHANGED << contact_frame, node_list, node_id,
                  allows_contact_point_internal_node,
                  contact_points_include_descendants >>

\* wb_supervisor_node_get_contact_point returns a point (1) or the invalid
\* vector (0); it leaves contact_points_include_descendants as it was.
ContactPointResult(n, index) == IF HasContactPoint(n, index) THEN 1 ELSE 0

node_get_contact_point(nodes) ==
  /\ pc = "idle"
  /\ \E node \in nodes, index \in 0..MaxContacts :
       LET c == [ NoCall EXCEPT !.op = "wb_supervisor_node_get_contact_point" ]
           known == [ c EXCEPT !.node = node, !.index = index, !.valid = TRUE ]
       IN  IF ~is_node_ref_valid(node_list, node) THEN
             /\ call' = c
             /\ UNCHANGED << node_list, contact_points_node_ref,
                             contact_points_include_descendants, pc >>
           ELSE IF CacheIsStale(node) THEN
             contact_points_refresh(known, node, contact_points_include_descendants)
           ELSE
             /\ call' = [ known EXCEPT
                            !.ret = ContactPointResult(NodeAt(node_list, node), index) ]
             /\ UNCHANGED << node_list, contact_points_node_ref,
                             contact_points_include_descendants, pc >>
  /\ UNCHANGED << contact_frame, node_id, allows_contact_point_internal_node >>

wb_supervisor_node_get_contact_point == node_get_contact_point(NodeArgs)

wb_supervisor_node_get_contact_point_return ==
  /\ Flushed("wb_supervisor_node_get_contact_point")
  /\ contact_points_node_ref' = NULL
  /\ \E n \in NodeAfterFlush(call.node) :
       call' = [ robot_mutex_unlock_step(call) EXCEPT !.ret = ContactPointResult(n, call.index) ]
  /\ pc' = "idle"
  /\ UNCHANGED << contact_frame, node_list, node_id,
                  allows_contact_point_internal_node,
                  contact_points_include_descendants >>

\* wb_supervisor_node_get_contact_point_node: after the refresh, the node
\* of the point is looked up with node_get_from_id, which may flush again.
\* The part of the function after the refresh:
contact_point_node_lookup(c, n) ==
  LET id == n.node_id_per_contact_points
      result == find_node_by_id(node_list, id)
  IN  IF ~HasContactPoint(n, c.index) THEN
        /\ call' = [ c EXCEPT !.ret = NULL ]
        /\ pc' = "idle"
        /\ UNCHANGED << node_id, allows_contact_point_internal_node >>
      ELSE IF result # NULL THEN
        /\ call' = [ WritesUnlocked(c, { "allows_contact_point_internal_node" })
                       EXCEPT !.ret = result ]
        /\ pc' = "idle"
        /\ UNCHANGED << node_id, allows_contact_point_internal_node >>
      ELSE
        /\ allows_contact_point_internal_node' = TRUE
        /\ node_id' = id
        /\ call' = [ WritesUnlocked(c, { "allows_contact_point_internal_node" })
                       EXCEPT !.flushed = TRUE, !.mutex = 1,
                              !.head = HeadRef(node_list), !.val = id ]
        /\ pc' = "write"

node_get_contact_point_node(nodes) ==
  /\ pc = "idle"
  /\ \E node \in nodes, index \in 0..MaxContacts :
       LET c == [ NoCall EXCEPT !.op = "wb_supervisor_node_get_contact_point_node" ]
           known == [ c EXCEPT !.node = node, !.index = index, !.valid = TRUE ]
       IN  IF ~is_node_ref_valid(node_list, node) THEN
             /\ call' = c
             /\ UNCHANGED << node_list, contact_points_node_ref,
                             contact_points_include_descendants, pc, node_id,
                             allows_contact_point_internal_node >>
           ELSE IF CacheIsStale(node) THEN
             /\ contact_points_refresh(known, node, contact_points_include_descendants)
             /\ UNCHANGED << node_id, allows_contact_point_internal_node >>
           ELSE
             /\ contact_point_node_lookup(known, NodeAt(node_list, node))
             /\ UNCHANGED << node_list, contact_points_node_ref,
                             contact_points_include_descendants >>
  /\ UNCHANGED contact_frame

wb_supervisor_node_get_contact_point_node == node_get_contact_point_node(NodeArgs)

\* The refresh has been answered.
wb_supervisor_node_get_contact_point_node_refreshed ==
  /\ Flushed("wb_supervisor_node_get_contact_point_node")
  /\ contact_points_node_ref # NULL
  /\ contact_points_node_ref' = NULL
  /\ \E n \in NodeAfterFlush(call.node) :
       contact_point_node_lookup(robot_mutex_unlock_step(call), n)
  /\ UNCHANGED << contact_frame, node_list, contact_points_include_descendants >>

\* node_get_from_id has been answered.
wb_supervisor_node_get_contact_point_node_return ==
  /\ Flushed("wb_supervisor_node_get_contact_point_node")
  /\ contact_points_node_ref = NULL
  /\ call' = [ WritesUnlocked(robot_mutex_unlock_step(call),
                              { "allows_contact_point_internal_node" })
                 EXCEPT !.ret = IF HeadRef(node_list) # call.head
                                THEN HeadRef(node_list)
                                ELSE find_node_by_id(node_list, call.val),
                        !.head = NULL ]
  /\ node_id' = -1
  /\ allows_contact_point_internal_node' = FALSE
  /\ pc' = "idle"
  /\ UNCHANGED << contact_frame, node_list, contact_points_node_ref,
                  contact_points_include_descendants >>

-----------------------------------------------------------------------------
(***************************************************************************)
(* Field handles.                                                          *)
(***************************************************************************)
FieldArgs == FieldAddrs \cup { NULL }

\* The slots a field lookup leaves alone.
node_slots == << node_id, node_def_name, proto_id, node_tag, node_get_selected,
                 node_to_remove, imported_nodes_number,
                 allows_contact_point_internal_node,
                  contact_points_node_ref, contact_points_include_descendants >>

\* Reading node->is_proto_internal after the flush: the node may have been
\* freed by the dispatcher, and then the read yields either value.
InternalAfterFlush(node) ==
  IF is_node_ref_valid(node_list, node)
  THEN { NodeAt(node_list, node).is_proto_internal }
  ELSE BOOLEAN

get_field_call(c, node, field_name, in_proto) ==
  LET result == find_field(field_list, field_name, NodeAt(node_list, node).id)
  IN  IF result # NULL THEN
        /\ call' = [ c EXCEPT !.valid = TRUE, !.ret = result ]
        /\ UNCHANGED << requested_field_name, node_ref, allow_search_in_proto, pc >>
      ELSE
        /\ requested_field_name' = field_name
        /\ node_ref' = NodeAt(node_list, node).id
        /\ allow_search_in_proto' = in_proto
        /\ call' = [ c EXCEPT !.valid = TRUE, !.flushed = TRUE, !.mutex = 1, !.node = node,
                              !.name = field_name ]
        /\ pc' = "write"

node_get_field(nodes, names) ==
  /\ pc = "idle"
  /\ \E node \in nodes, field_name \in names \cup { NullName } :
       LET c == [ NoCall EXCEPT !.op = "wb_supervisor_node_get_field" ]
       IN  IF ~is_node_ref_valid(node_list, node) \/ field_name = NullName
           THEN /\ call' = c
                /\ UNCHANGED << requested_field_name, node_ref,
                                allow_search_in_proto, pc >>
           ELSE get_field_call(c, node, field_name, allow_search_in_proto)
  /\ UNCHANGED << regs, queue, refs, wire, sim_count, globals, node_slots >>

wb_supervisor_node_get_field == node_get_field(NodeArgs, FieldNames)

wb_supervisor_node_get_field_return ==
  /\ Flushed("wb_supervisor_node_get_field")
  /\ IF requested_field_name # NullName
     THEN \E internal \in InternalAfterFlush(call.node) :
            /\ call' = [ robot_mutex_unlock_step(call) EXCEPT !.ret = HeadRef(field_list), !.node = NULL,
                                                          !.name = NullName ]
            /\ field_list' =
                 IF HeadRef(field_list) # NULL /\ internal
                 THEN SetField(field_list, HeadRef(field_list), "is_proto_internal", TRUE)
                 ELSE field_list
     ELSE /\ call' = [ robot_mutex_unlock_step(call) EXCEPT !.node = NULL, !.name = NullName ]
          /\ UNCHANGED field_list
  /\ requested_field_name' = NullName
  /\ pc' = "idle"
  /\ UNCHANGED << node_list, queue, refs, wire, sim_count, globals, node_slots, node_ref,
                  allow_search_in_proto >>

node_get_proto_field(nodes, names) ==
  /\ pc = "idle"
  /\ \E node \in nodes, field_name \in names \cup { NullName } :
       LET c == [ NoCall EXCEPT !.op = "wb_supervisor_node_get_proto_field" ]
       IN  IF \/ ~is_node_ref_valid(node_list, node)
              \/ ~NodeAt(node_list, node).is_proto
              \/ field_name = NullName
           THEN /\ call' = c
                /\ UNCHANGED << requested_field_name, node_ref,
                                allow_search_in_proto, pc >>
           ELSE get_field_call(c, node, field_name, TRUE)
  /\ UNCHANGED << regs, queue, refs, wire, sim_count, globals, node_slots >>

wb_supervisor_node_get_proto_field == node_get_proto_field(NodeArgs, FieldNames)

wb_supervisor_node_get_proto_field_return ==
  /\ Flushed("wb_supervisor_node_get_proto_field")
  /\ IF requested_field_name # NullName
     THEN /\ call' = [ robot_mutex_unlock_step(call) EXCEPT !.ret = HeadRef(field_list), !.node = NULL,
                                                          !.name = NullName ]
          /\ field_list' =
               IF HeadRef(field_list) # NULL
               THEN SetField(field_list, HeadRef(field_list), "is_proto_internal", TRUE)
               ELSE field_list
     ELSE /\ call' = [ robot_mutex_unlock_step(call) EXCEPT !.node = NULL, !.name = NullName ]
          /\ UNCHANGED field_list
  /\ requested_field_name' = NullName
  /\ allow_search_in_proto' = FALSE
  /\ pc' = "idle"
  /\ UNCHANGED << node_list, queue, refs, wire, sim_count, globals, node_slots, node_ref >>

-----------------------------------------------------------------------------
(***************************************************************************)
(* Field operations (supervisor.c lines 1025-1118 and 2281-3009).  The     *)
(* typed functions of one family differ only in the type tag and the       *)
(* member of the union they copy; the float and node ones stand for them.  *)
(* Values are finite floats, so check_float accepts them.                  *)
(***************************************************************************)
Vals == 0..MaxVal
NoOffset(is_importing) == 0

\* A double is an amount in hundredths (1.0 is 100) or NaN; any amount above
\* FLT_MAX, infinity included, is FLT_MAX + 1, and likewise below -FLT_MAX.
FLT_MAX == 1000
NaN == 0 - 100000
Doubles == { NaN, 0 - (FLT_MAX + 1), 0, 100, 157, FLT_MAX + 1 }
Vectors(n) == [ 1..n -> Doubles ]

isnan(value) == value = NaN

AnyFloat(value) == TRUE

check_float(value) ==
  /\ ~isnan(value)
  /\ ~(value > FLT_MAX)
  /\ ~(value < 0 - FLT_MAX)

check_vector(values, n) ==
  /\ values # << >>
  /\ \A i \in 1..n : check_float(values[i])

\* Comparisons with NaN are false.
isValidRotation(r) ==
  ~(~isnan(r[1]) /\ r[1] = 0 /\ ~isnan(r[2]) /\ r[2] = 0 /\ ~isnan(r[3]) /\ r[3] = 0)

isValidColor(rgb) ==
  \A i \in 1..3 : ~isnan(rgb[i]) /\ rgb[i] >= 0 /\ rgb[i] <= 100

Indexes == (0 - (MaxCount + 2))..(MaxCount + 1)

\* The indexes from the last item (-1) to one past the end.
NearIndexes == -1..MaxCount

\* check_field: the handle is registered, writable if it must be, of the
\* type asked for if that is checked, and the index is within the count.
IndexOffset(is_importing) == IF is_importing THEN 0 ELSE -1

\* A validation that let writers through to the fields flagged internal.
CheckFieldIgnoringInternal(field, type, check_type, index, is_importing, check_type_internal) ==
  /\ field # NULL
  /\ is_field_ref_valid(field_list, field)
  /\ LET f == FieldAt(field_list, field)
         offset == IndexOffset(is_importing)
     IN  /\ ~(check_type /\ f.type # type)
         /\ HasMFBit(type) =>
              ~(index < 0 - (f.count + 1 + offset) \/ index > f.count + offset)

check_field(field, type, check_type, index, is_importing, check_type_internal) ==
  /\ field # NULL
  /\ is_field_ref_valid(field_list, field)
  /\ LET f == FieldAt(field_list, field)
         offset == IndexOffset(is_importing)
     IN  /\ ~(check_type_internal /\ f.is_proto_internal)
         /\ ~(check_type /\ f.type # type)
         /\ HasMFBit(type) =>
              ~(index < 0 - (f.count + 1 + offset) \/ index > f.count + offset)

\* The index after check_field resolved a negative one.
checked_index(field, type, index, is_importing) ==
  IF HasMFBit(type) /\ index < 0
  THEN index + FieldAt(field_list, field).count + 1 + IndexOffset(is_importing)
  ELSE index

\* field_operation_with_data: a SET queued for the same field and index
\* absorbs the operation; otherwise a request is appended, and the flush
\* follows unless the request is a SET.
Coalesces(field, index) == QueuedSetPos(field_requests_list, field, index) # 0

QueuedSet(field, index) ==
  field_requests_list[QueuedSetPos(field_requests_list, field, index)]

\* A getter that ignored the queue would leave the field record as it is.
FieldsIgnoringQueue(field, action, index) == field_list

FieldsAfterOperation(field, action, index) ==
  IF Coalesces(field, index) /\ action = "GET"
  THEN SetField(field_list, field, "data", QueuedSet(field, index).data)
  ELSE field_list

\* An operation that never looked for a queued SET would append each time.
RequestsAlwaysAppended(field, action, index, data) == create_and_append_field_request(field_requests_list, FieldAt(field_list, field), action, index, data, TRUE)

RequestsAfterOperation(field, action, index, data) ==
  IF Coalesces(field, index)
  THEN IF action = "SET"
       THEN [ field_requests_list
                EXCEPT ![QueuedSetPos(field_requests_list, field, index)].data = data ]
       ELSE field_requests_list
  ELSE create_and_append_field_request(field_requests_list,
                                       FieldAt(field_list, field), action, index,
                                       data, TRUE)

\* The requests that are not GETs stay allocated, in the queue and then on
\* the garbage list, until the dispatcher runs; the model holds at most
\* MaxQueue of them.
CanAppend ==
  Len(field_requests_list) + Len(field_requests_garbage_list) < MaxQueue

\* A flush for the getters only would leave the other requests queued.
FlushesForGetOnly(field, action, index) ==
  ~Coalesces(field, index) /\ action = "GET"

OperationFlushes(field, action, index) ==
  ~Coalesces(field, index) /\ action # "SET"

\* What a getter returns from the field record, and the registry after it:
\* the node getters look the uid up and pass the internal flag on.
GetterNode(type, f) ==
  IF type = "SF_NODE" /\ f.data <= 0 THEN NULL
  ELSE find_node_by_id(node_list, f.data)

GetterResult(type, f) ==
  IF IsNodeType(type) THEN GetterNode(type, f) ELSE f.data

\* The node getters flag the node after field_operation has released the
\* mutex.
FlagWritten(nodes) == IF nodes # node_list THEN { "is_proto_internal" } ELSE { }

GetterNodes(type, f) ==
  IF IsNodeType(type) /\ GetterNode(type, f) # NULL /\ f.is_proto_internal
  THEN SetNode(node_list, GetterNode(type, f), "is_proto_internal", TRUE)
  ELSE node_list

\* Reading through the handle after the flush: a freed record reads as
\* anything.
FieldAfterFlush(field) ==
  IF is_field_ref_valid(field_list, field)
  THEN { FieldAt(field_list, field) }
  ELSE { [ FreedField EXCEPT !.data = v, !.is_proto_internal = b ] :
           v \in Vals, b \in BOOLEAN }

field_get(op, type, field, index) ==
  /\ pc = "idle"
  /\ LET c == [ NoCall EXCEPT !.op = op, !.arg = index ]
         i == checked_index(field, type, index, FALSE)
         known == [ c EXCEPT !.valid = TRUE, !.field = field, !.index = i ]
         fields == FieldsAfterOperation(field, "GET", i)
     IN  IF ~check_field(field, type, TRUE, index, FALSE, FALSE) THEN
           /\ call' = [ c EXCEPT !.refused = field ]
           /\ UNCHANGED << regs, field_requests_list, pc >>
         ELSE IF Coalesces(field, i) THEN
           /\ field_list' = fields
           /\ node_list' = GetterNodes(type, FieldAt(fields, field))
           /\ call' = [ WritesUnlocked(known, FlagWritten(node_list'))
                          EXCEPT !.ret = GetterResult(type, FieldAt(fields, field)) ]
           /\ UNCHANGED << field_requests_list, pc >>
         ELSE
           /\ field_requests_list' = RequestsAfterOperation(field, "GET", i, 0)
           /\ call' = [ known EXCEPT !.flushed = TRUE, !.mutex = 1 ]
           /\ pc' = "write"
           /\ UNCHANGED regs
  /\ UNCHANGED << field_requests_garbage_list, sent_field_get_request, slots,
                  refs, wire, sim_count, globals >>

field_get_return(op, type) ==
  /\ Flushed(op)
  /\ \E f \in FieldAfterFlush(call.field) :
       /\ node_list' = GetterNodes(type, f)
       /\ call' = [ WritesUnlocked(robot_mutex_unlock_step(call), FlagWritten(node_list'))
                      EXCEPT !.ret = GetterResult(type, f) ]
  /\ pc' = "idle"
  /\ UNCHANGED << field_list, queue, slots, refs, wire, sim_count, globals >>

wb_supervisor_field_get_sf_float ==
  \E field \in FieldArgs :
    field_get("wb_supervisor_field_get_sf_float", "SF_FLOAT", field, -1)

wb_supervisor_field_get_sf_float_return ==
  field_get_return("wb_supervisor_field_get_sf_float", "SF_FLOAT")

field_get_mf_float(indexes) ==
  \E field \in FieldArgs, index \in indexes :
    field_get("wb_supervisor_field_get_mf_float", "MF_FLOAT", field, index)

wb_supervisor_field_get_mf_float == field_get_mf_float(Indexes)

wb_supervisor_field_get_mf_float_return ==
  field_get_return("wb_supervisor_field_get_mf_float", "MF_FLOAT")

wb_supervisor_field_get_sf_node ==
  \E field \in FieldArgs :
    field_get("wb_supervisor_field_get_sf_node", "SF_NODE", field, -1)

wb_supervisor_field_get_sf_node_return ==
  field_get_return("wb_supervisor_field_get_sf_node", "SF_NODE")

field_get_mf_node(indexes) ==
  \E field \in FieldArgs, index \in indexes :
    field_get("wb_supervisor_field_get_mf_node", "MF_NODE", field, index)

wb_supervisor_field_get_mf_node == field_get_mf_node(Indexes)

wb_supervisor_field_get_mf_node_return ==
  field_get_return("wb_supervisor_field_get_mf_node", "MF_NODE")

\* The setters: the request stays queued until some later flush.
field_set(op, type, field, index, value, value_checks) ==
  /\ pc = "idle"
  /\ LET c == [ NoCall EXCEPT !.op = op, !.arg = index,
                              !.values = IF IsVectorType(type) THEN value ELSE << value >> ]
         i == checked_index(field, type, index, FALSE)
     IN  IF ~check_field(field, type, TRUE, index, FALSE, TRUE) \/ ~value_checks THEN
           /\ call' = [ c EXCEPT !.refused = field ]
           /\ UNCHANGED field_requests_list
         ELSE
           /\ Coalesces(field, i) \/ CanAppend
           /\ field_requests_list' = RequestsAfterOperation(field, "SET", i, value)
           /\ call' = [ c EXCEPT !.valid = TRUE, !.field = field, !.index = i ]
  /\ UNCHANGED << regs, field_requests_garbage_list, sent_field_get_request,
                  slots, refs, pc, wire, sim_count, globals >>

field_set_sf_float(values) ==
  \E field \in FieldArgs, value \in values :
    field_set("wb_supervisor_field_set_sf_float", "SF_FLOAT", field, -1, value,
              check_float(value))

wb_supervisor_field_set_sf_float == field_set_sf_float(Vals \cup Doubles)

field_set_mf_float(indexes, values) ==
  \E field \in FieldArgs, index \in indexes, value \in values :
    field_set("wb_supervisor_field_set_mf_float", "MF_FLOAT", field, index, value,
              check_float(value))

wb_supervisor_field_set_mf_float == field_set_mf_float(Indexes, Vals \cup Doubles)

field_set_sf_rotation(vectors) ==
  \E field \in FieldArgs, values \in vectors :
    field_set("wb_supervisor_field_set_sf_rotation", "SF_ROTATION", field, -1, values,
              check_vector(values, 4) /\ isValidRotation(values))

wb_supervisor_field_set_sf_rotation == field_set_sf_rotation(Vectors(4) \cup { << >> })

field_set_sf_color(vectors) ==
  \E field \in FieldArgs, values \in vectors :
    field_set("wb_supervisor_field_set_sf_color", "SF_COLOR", field, -1, values,
              values # << >> /\ isValidColor(values))

wb_supervisor_field_set_sf_color == field_set_sf_color(Vectors(3) \cup { << >> })

\* Writing field->count after the flush: nothing of the model changes if
\* the record was freed meanwhile.
SetCountAfterFlush(field, count(_)) ==
  IF is_field_ref_valid(field_list, field)
  THEN SetField(field_list, field, "count", count(FieldAt(field_list, field)))
  ELSE field_list

\* The simulator's count of a registered field (-1 if it tracks none).
SimCountOf(f) ==
  IF << f.node_unique_id, f.name >> \in CountKeys
  THEN sim_count[<< f.node_unique_id, f.name >>]
  ELSE -1

\* wb_supervisor_field_insert_mf_float and its siblings: IMPORT, then count++.
CountPlusOne(f) == f.count + 1

field_insert_mf_float(indexes, values) ==
  /\ pc = "idle"
  /\ \E field \in FieldArgs, index \in indexes, value \in values :
       LET c == [ NoCall EXCEPT !.op = "wb_supervisor_field_insert_mf_float", !.arg = index, !.values = << value >> ]
           i == checked_index(field, "MF_FLOAT", index, TRUE)
           known == [ c EXCEPT !.valid = TRUE, !.field = field, !.index = i ]
       IN  IF ~check_field(field, "MF_FLOAT", TRUE, index, TRUE, TRUE) \/ ~check_float(value) THEN
             /\ call' = [ c EXCEPT !.refused = field ]
             /\ UNCHANGED << field_list, field_requests_list, pc >>
           ELSE
             /\ FieldAt(field_list, field).count < MaxCount
             /\ SimCountOf(FieldAt(field_list, field)) < MaxCount
             /\ Coalesces(field, i) \/ CanAppend
             /\ field_requests_list' = RequestsAfterOperation(field, "IMPORT", i, value)
             /\ IF OperationFlushes(field, "IMPORT", i)
                THEN /\ call' = [ known EXCEPT !.flushed = TRUE, !.mutex = 1 ]
                     /\ pc' = "write"
                     /\ UNCHANGED field_list
                ELSE /\ call' = WritesUnlocked(known, { "count" })
                     /\ field_list' = SetCountAfterFlush(field, CountPlusOne)
                     /\ UNCHANGED pc
  /\ UNCHANGED << node_list, field_requests_garbage_list, sent_field_get_request,
                  slots, refs, wire, sim_count, globals >>

wb_supervisor_field_insert_mf_float == field_insert_mf_float(Indexes, Vals \cup Doubles)

wb_supervisor_field_insert_mf_float_return ==
  /\ Flushed("wb_supervisor_field_insert_mf_float")
  /\ field_list' = SetCountAfterFlush(call.field, CountPlusOne)
  /\ call' = WritesUnlocked(robot_mutex_unlock_step(call), { "count" })
  /\ pc' = "idle"
  /\ UNCHANGED << node_list, queue, slots, refs, wire, sim_count, globals >>

\* wb_supervisor_field_remove_mf: REMOVE, then count-- unless the field holds
\* nodes.  The function reads field->count before it validates the handle:
\* with a handle that is not registered (NULL, or a record that was freed)
\* that read is undefined: the process is stopped by the fault, or the read
\* yields some count and the call is turned down, by the test for an empty
\* field or by check_field.
ReadThroughInvalidHandle(c, field) ==
  /\ call' = [ c EXCEPT !.refused = field, !.undefined = TRUE ]
  /\ pc' \in { "idle", "crashed" }

CountAfterRemoveMF(f) == IF f.type # "MF_NODE" THEN f.count - 1 ELSE f.count

\* The count is written after field_operation has released the mutex.
CountWritten(fields) == IF fields # field_list THEN { "count" } ELSE { }

field_remove_mf(indexes) ==
  /\ pc = "idle"
  /\ \E field \in FieldArgs, index \in indexes :
       LET c == [ NoCall EXCEPT !.op = "wb_supervisor_field_remove_mf", !.arg = index ]
           i == checked_index(field, "WB_MF", index, FALSE)
           known == [ c EXCEPT !.valid = TRUE, !.field = field, !.index = i ]
       IN  IF ~is_field_ref_valid(field_list, field)
           THEN
             /\ ReadThroughInvalidHandle(c, field)
             /\ UNCHANGED << field_list, field_requests_list >>
           ELSE IF \/ FieldAt(field_list, field).count = 0
                   \/ ~check_field(field, "WB_MF", FALSE, index, FALSE, TRUE)
           THEN
             /\ call' = [ c EXCEPT !.refused = field ]
             /\ UNCHANGED << field_list, field_requests_list, pc >>
           ELSE
             /\ Coalesces(field, i) \/ CanAppend
             /\ field_requests_list' = RequestsAfterOperation(field, "REMOVE", i, 0)
             /\ IF OperationFlushes(field, "REMOVE", i)
                THEN /\ call' = [ known EXCEPT !.flushed = TRUE, !.mutex = 1 ]
                     /\ pc' = "write"
                     /\ UNCHANGED field_list
                ELSE /\ field_list' = SetCountAfterFlush(field, CountAfterRemoveMF)
                     /\ call' = WritesUnlocked(known, CountWritten(field_list'))
                     /\ UNCHANGED pc
  /\ UNCHANGED << node_list, field_requests_garbage_list, sent_field_get_request,
                  slots, refs, wire, sim_count, globals >>

wb_supervisor_field_remove_mf == field_remove_mf(Indexes)

wb_supervisor_field_remove_mf_return ==
  /\ Flushed("wb_supervisor_field_remove_mf")
  /\ field_list' = SetCountAfterFlush(call.field, CountAfterRemoveMF)
  /\ call' = WritesUnlocked(robot_mutex_unlock_step(call), CountWritten(field_list'))
  /\ pc' = "idle"
  /\ UNCHANGED << node_list, queue, slots, refs, wire, sim_count, globals >>

\* wb_supervisor_field_remove_sf: REMOVE, then count = 0.
CountZero(f) == 0

wb_supervisor_field_remove_sf ==
  /\ pc = "idle"
  /\ \E field \in FieldArgs :
       LET c == [ NoCall EXCEPT !.op = "wb_supervisor_field_remove_sf" ]
           known == [ c EXCEPT !.valid = TRUE, !.field = field, !.index = -1 ]
       IN  IF ~is_field_ref_valid(field_list, field)
           THEN
             /\ ReadThroughInvalidHandle(c, field)
             /\ UNCHANGED << field_list, field_requests_list >>
           ELSE IF \/ FieldAt(field_list, field).data = 0
                   \/ ~check_field(field, "SF_NODE", TRUE, -1, FALSE, TRUE)
           THEN
             /\ call' = [ c EXCEPT !.refused = field ]
             /\ UNCHANGED << field_list, field_requests_list, pc >>
           ELSE
             /\ Coalesces(field, -1) \/ CanAppend
             /\ field_requests_list' = RequestsAfterOperation(field, "REMOVE", -1, 0)
             /\ IF OperationFlushes(field, "REMOVE", -1)
                THEN /\ call' = [ known EXCEPT !.flushed = TRUE, !.mutex = 1 ]
                     /\ pc' = "write"
                     /\ UNCHANGED field_list
                ELSE /\ call' = WritesUnlocked(known, { "count" })
                     /\ field_list' = SetCountAfterFlush(field, CountZero)
                     /\ UNCHANGED pc
  /\ UNCHANGED << node_list, field_requests_garbage_list, sent_field_get_request,
                  slots, refs, wire, sim_count, globals >>

wb_supervisor_field_remove_sf_return ==
  /\ Flushed("wb_supervisor_field_remove_sf")
  /\ field_list' = SetCountAfterFlush(call.field, CountZero)
  /\ call' = WritesUnlocked(robot_mutex_unlock_step(call), { "count" })
  /\ pc' = "idle"
  /\ UNCHANGED << node_list, queue, slots, refs, wire, sim_count, globals >>

\* wb_supervisor_field_import_mf_node_from_string: the request is appended
\* without looking at the queue, and the count grows by what the reply says.
CountPlusImported(f) ==
  IF imported_nodes_number > 0 THEN f.count + imported_nodes_number ELSE f.count

field_import_mf_node_from_string(indexes) ==
  /\ pc = "idle"
  /\ \E field \in FieldArgs, position \in indexes :
       LET c == [ NoCall EXCEPT !.op = "wb_supervisor_field_import_mf_node_from_string", !.arg = position ]
           count == FieldAt(field_list, field).count
           i == IF position < 0 THEN count + position + 1 ELSE position
       IN  IF \/ ~check_field(field, "WB_NO_FIELD", FALSE, -1, FALSE, TRUE)
              \/ FieldAt(field_list, field).type # "MF_NODE"
              \/ position < 0 - (count + 1) \/ position > count
           THEN
             /\ call' = [ c EXCEPT !.refused = field ]
             /\ UNCHANGED << field_requests_list, imported_nodes_number, pc >>
           ELSE
             /\ count < MaxCount
             /\ CanAppend
             /\ field_requests_list' =
                  create_and_append_field_request(field_requests_list,
                     FieldAt(field_list, field), "IMPORT_FROM_STRING", i, 1, FALSE)
             /\ imported_nodes_number' = -1
             /\ call' = [ c EXCEPT !.valid = TRUE, !.field = field, !.index = i,
                                   !.flushed = TRUE, !.mutex = 1 ]
             /\ pc' = "write"
  /\ UNCHANGED << regs, field_requests_garbage_list, sent_field_get_request,
                  refs, wire, sim_count, globals, node_id, node_def_name, proto_id,
                  node_tag, node_get_selected, requested_field_name, node_ref,
                  allow_search_in_proto, node_to_remove,
                  allows_contact_point_internal_node,
                  contact_points_node_ref, contact_points_include_descendants >>

wb_supervisor_field_import_mf_node_from_string == field_import_mf_node_from_string(Indexes)

wb_supervisor_field_import_mf_node_from_string_return ==
  /\ Flushed("wb_supervisor_field_import_mf_node_from_string")
  /\ field_list' = SetCountAfterFlush(call.field, CountPlusImported)
  /\ call' = robot_mutex_unlock_step(call)
  /\ pc' = "idle"
  /\ UNCHANGED << node_list, queue, slots, refs, wire, sim_count, globals >>

\* File names, a token per run of characters: NULL, the empty string, a name
\* without extension, a name that is only an extension, and names with one.
FileNames ==
  { NullStr, << >>, << "a" >>, << ".", "wbo" >>, << "a", ".", "wbo" >>,
    << "a", ".", "wrl" >>, << "a", ".", "wbo", ".", "txt" >> }

\* strrchr(filename, '.'): the position of the last dot, 0 when there is none.
strrchr(str, ch) ==
  IF \E i \in 1..Len(str) : str[i] = ch
  THEN CHOOSE i \in 1..Len(str) :
         str[i] = ch /\ \A j \in (i + 1)..Len(str) : str[j] # ch
  ELSE 0

StringFrom(str, pos) == SubSeq(str, pos, Len(str))

\* wb_supervisor_field_import_sf_node: the checks, then an IMPORT request
\* that is appended without looking at the queue, and the flush.
wb_supervisor_field_import_sf_node ==
  /\ pc = "idle"
  /\ \E field \in FieldArgs, filename \in FileNames :
       LET c == [ NoCall EXCEPT !.op = "wb_supervisor_field_import_sf_node",
                                !.def = filename ]
           dot == strrchr(filename, ".")
       IN  IF \/ ~check_field(field, "WB_NO_FIELD", FALSE, -1, FALSE, TRUE)
              \/ filename = NullStr \/ filename = << >>
              \/ dot = 0 \/ dot = 1
              \/ StringFrom(filename, dot) = << ".", "wbo" >>
              \/ FieldAt(field_list, field).type # "SF_NODE"
              \/ FieldAt(field_list, field).data # 0
           THEN
             /\ call' = [ c EXCEPT !.refused = field ]
             /\ UNCHANGED << field_requests_list, imported_nodes_number, pc >>
           ELSE
             /\ CanAppend
             /\ field_requests_list' =
                  create_and_append_field_request(field_requests_list,
                     FieldAt(field_list, field), "IMPORT", -1, 1, FALSE)
             /\ imported_nodes_number' = -1
             /\ call' = [ c EXCEPT !.valid = TRUE, !.field = field, !.flushed = TRUE, !.mutex = 1 ]
             /\ pc' = "write"
  /\ UNCHANGED << regs, field_requests_garbage_list, sent_field_get_request,
                  refs, wire, sim_count, globals, node_id, node_def_name, proto_id,
                  node_tag, node_get_selected, requested_field_name, node_ref,
                  allow_search_in_proto, node_to_remove,
                  allows_contact_point_internal_node,
                  contact_points_node_ref, contact_points_include_descendants >>

\* After the flush: field->data.sf_node_uid = imported_nodes_number unless
\* that is negative; nothing of the model changes if the record was freed.
wb_supervisor_field_import_sf_node_return ==
  /\ Flushed("wb_supervisor_field_import_sf_node")
  /\ field_list' =
       IF is_field_ref_valid(field_list, call.field) /\ imported_nodes_number >= 0
       THEN SetField(field_list, call.field, "data", imported_nodes_number)
       ELSE field_list
  /\ call' = robot_mutex_unlock_step(call)
  /\ pc' = "idle"
  /\ UNCHANGED << node_list, queue, slots, refs, wire, sim_count, globals >>

Next ==
  \/ supervisor_write_request
  \/ Simulate
  \/ supervisor_read_answer
  \/ wb_robot_init_return
  \/ wb_robot_step
  \/ wb_robot_step_return
  \/ wb_supervisor_node_get_root
  \/ wb_supervisor_node_get_self
  \/ wb_supervisor_simulation_set_mode
  \/ wb_supervisor_simulation_quit
  \/ wb_supervisor_simulation_reset
  \/ wb_supervisor_world_reload
  \/ wb_supervisor_simulation_reset_physics
  \/ wb_supervisor_world_load
  \/ wb_supervisor_set_label
  \/ wb_supervisor_export_image
  \/ slot_call_return
  \/ wb_supervisor_virtual_reality_headset_is_used
  \/ wb_supervisor_virtual_reality_headset_is_used_return
  \/ wb_supervisor_node_get_from_device
  \/ wb_supervisor_node_get_from_device_return
  \/ wb_supervisor_node_get_selected
  \/ wb_supervisor_node_get_selected_return
  \/ wb_supervisor_node_get_from_def
  \/ wb_supervisor_node_get_from_def_return
  \/ wb_supervisor_node_get_from_proto_def
  \/ wb_supervisor_node_get_from_proto_def_return
  \/ wb_supervisor_node_get_from_id
  \/ wb_supervisor_node_get_from_id_return
  \/ wb_supervisor_node_get_parent_node
  \/ wb_supervisor_node_get_parent_node_return
  \/ wb_supervisor_node_remove
  \/ wb_supervisor_node_remove_return
  \/ wb_supervisor_node_get_number_of_contact_points
  \/ wb_supervisor_node_get_number_of_contact_points_return
  \/ wb_supervisor_node_get_contact_point
  \/ wb_supervisor_node_get_contact_point_return
  \/ wb_supervisor_node_get_contact_point_node
  \/ wb_supervisor_node_get_contact_point_node_refreshed
  \/ wb_supervisor_node_get_contact_point_node_return
  \/ wb_supervisor_node_get_field
  \/ wb_supervisor_node_get_field_return
  \/ wb_supervisor_node_get_proto_field
  \/ wb_supervisor_node_get_proto_field_return
  \/ wb_supervisor_field_get_sf_float
  \/ wb_supervisor_field_get_sf_float_return
  \/ wb_supervisor_field_get_mf_float
  \/ wb_supervisor_field_get_mf_float_return
  \/ wb_supervisor_field_get_sf_node
  \/ wb_supervisor_field_get_sf_node_return
  \/ wb_supervisor_field_get_mf_node
  \/ wb_supervisor_field_get_mf_node_return
  \/ wb_supervisor_field_set_sf_float
  \/ wb_supervisor_field_set_mf_float
  \/ wb_supervisor_field_set_sf_rotation
  \/ wb_supervisor_field_set_sf_color
  \/ wb_supervisor_field_insert_mf_float
  \/ wb_supervisor_field_insert_mf_float_return
  \/ wb_supervisor_field_remove_mf
  \/ wb_supervisor_field_remove_mf_return
  \/ wb_supervisor_field_remove_sf
  \/ wb_supervisor_field_remove_sf_return
  \/ wb_supervisor_field_import_mf_node_from_string
  \/ wb_supervisor_field_import_mf_node_from_string_return
  \/ wb_supervisor_field_import_sf_node
  \/ wb_supervisor_field_import_sf_node_return

Spec == Init /\ [][Next]_vars


\* Handle resolution by DEF name, field lookup, and steps.
NextRegen ==
  \/ supervisor_write_request
  \/ Simulate
  \/ supervisor_read_answer
  \/ wb_robot_init_return
  \/ robot_step({ 0 })
  \/ wb_robot_step_return
  \/ wb_supervisor_node_get_from_def
  \/ wb_supervisor_node_get_from_def_return
  \/ node_get_field(NodeArgs, { "s" })
  \/ wb_supervisor_node_get_field_return
  \/ node_get_proto_field(NodeArgs, { "s" })
  \/ wb_supervisor_node_get_proto_field_return

SpecRegen == Init /\ [][NextRegen]_vars

\* Handle resolution by DEF name, in the world and inside PROTO nodes.
NextNode ==
  \/ supervisor_write_request
  \/ Simulate
  \/ supervisor_read_answer
  \/ wb_robot_init_return
  \/ robot_step({ 0 })
  \/ wb_robot_step_return
  \/ wb_supervisor_node_get_from_def
  \/ wb_supervisor_node_get_from_def_return
  \/ wb_supervisor_node_get_from_proto_def
  \/ wb_supervisor_node_get_from_proto_def_return

SpecNode == Init /\ [][NextNode]_vars

\* Operations on the float fields of the robot.
NextField ==
  \/ supervisor_write_request
  \/ Simulate
  \/ supervisor_read_answer
  \/ wb_robot_init_return
  \/ robot_step({ 0 })
  \/ wb_robot_step_return
  \/ node_get_field({ self_node_ref, NULL }, { "f", "s" })
  \/ wb_supervisor_node_get_field_return
  \/ wb_supervisor_field_get_sf_float
  \/ wb_supervisor_field_get_sf_float_return
  \/ field_get_mf_float(NearIndexes)
  \/ wb_supervisor_field_get_mf_float_return
  \/ field_set_sf_float(Vals)
  \/ field_set_mf_float(NearIndexes, Vals)
  \/ field_insert_mf_float(NearIndexes, Vals)
  \/ wb_supervisor_field_insert_mf_float_return
  \/ field_remove_mf(NearIndexes)
  \/ wb_supervisor_field_remove_mf_return

SpecField == InitPlain /\ [][NextField]_vars

\* The pending queue of the float fields of the robot, between the calls
\* that fill it and the frames that drain it.
NextQueue ==
  \/ supervisor_write_request
  \/ Simulate
  \/ supervisor_read_answer
  \/ wb_robot_init_return
  \/ robot_step({ 0 })
  \/ wb_robot_step_return
  \/ node_get_field({ self_node_ref }, { "f", "s" })
  \/ wb_supervisor_node_get_field_return
  \/ field_get_mf_float(NearIndexes)
  \/ wb_supervisor_field_get_mf_float_return
  \/ field_set_mf_float(NearIndexes, Vals)
  \/ field_insert_mf_float({ 0 }, { 0 })
  \/ wb_supervisor_field_insert_mf_float_return

SpecQueue == InitPlain /\ [][NextQueue]_vars

\* The calls that set one slot of the serializer and flush, with a SET queued
\* or not.
NextSlots ==
  \/ supervisor_write_request
  \/ Simulate
  \/ supervisor_read_answer
  \/ wb_robot_init_return
  \/ robot_step({ 0 })
  \/ wb_robot_step_return
  \/ wb_supervisor_simulation_set_mode
  \/ wb_supervisor_simulation_quit
  \/ wb_supervisor_simulation_reset
  \/ wb_supervisor_world_reload
  \/ wb_supervisor_simulation_reset_physics
  \/ wb_supervisor_world_load
  \/ wb_supervisor_set_label
  \/ wb_supervisor_export_image
  \/ slot_call_return
  \/ wb_supervisor_virtual_reality_headset_is_used
  \/ wb_supervisor_virtual_reality_headset_is_used_return
  \/ wb_supervisor_node_remove
  \/ wb_supervisor_node_remove_return
  \/ node_get_number_of_contact_points({ self_node_ref })
  \/ wb_supervisor_node_get_number_of_contact_points_return
  \/ node_get_field({ self_node_ref }, { "f" })
  \/ wb_supervisor_node_get_field_return
  \/ field_set_mf_float({ 0 }, { 1 })

SpecSlots == InitPlain /\ [][NextSlots]_vars

\* The calls that resolve a handle or remove a node.
NextBoundary ==
  \/ supervisor_write_request
  \/ Simulate
  \/ supervisor_read_answer
  \/ wb_robot_init_return
  \/ robot_step({ 0 })
  \/ wb_robot_step_return
  \/ wb_supervisor_node_get_from_def
  \/ wb_supervisor_node_get_from_def_return
  \/ node_get_from_proto_def(NodeAddrs, { << "A" >> })
  \/ wb_supervisor_node_get_from_proto_def_return
  \/ wb_supervisor_node_get_from_device
  \/ wb_supervisor_node_get_from_device_return
  \/ wb_supervisor_node_get_selected
  \/ wb_supervisor_node_get_selected_return
  \/ wb_supervisor_node_remove
  \/ wb_supervisor_node_remove_return
  \/ node_get_field({ self_node_ref }, { "f" })
  \/ wb_supervisor_node_get_field_return
  \/ node_get_proto_field(NodeAddrs, { "f" })
  \/ wb_supervisor_node_get_proto_field_return

SpecBoundary == InitPlain /\ [][NextBoundary]_vars

\* Operations on the MF_NODE field of the robot.
NextNodeField ==
  \/ supervisor_write_request
  \/ Simulate
  \/ supervisor_read_answer
  \/ wb_robot_init_return
  \/ node_get_field({ self_node_ref, NULL }, { "children" })
  \/ wb_supervisor_node_get_field_return
  \/ field_get_mf_node(NearIndexes)
  \/ wb_supervisor_field_get_mf_node_return
  \/ field_remove_mf(NearIndexes)
  \/ wb_supervisor_field_remove_mf_return
  \/ field_import_mf_node_from_string(NearIndexes)
  \/ wb_supervisor_field_import_mf_node_from_string_return

SpecNodeField == InitPlain /\ [][NextNodeField]_vars

\* Node lookups by DEF expression and by id, and node removal.
NextRemove ==
  \/ supervisor_write_request
  \/ Simulate
  \/ supervisor_read_answer
  \/ wb_robot_init_return
  \/ wb_supervisor_node_get_from_def
  \/ wb_supervisor_node_get_from_def_return
  \/ wb_supervisor_node_get_from_id
  \/ wb_supervisor_node_get_from_id_return
  \/ wb_supervisor_node_remove
  \/ wb_supervisor_node_remove_return

SpecRemove == Init /\ [][NextRemove]_vars

\* Writing operations on the fields of a robot that may be internal to a
\* PROTO.
NextInternal ==
  \/ supervisor_write_request
  \/ Simulate
  \/ supervisor_read_answer
  \/ wb_robot_init_return
  \/ node_get_field({ self_node_ref, NULL }, { "f", "s", "children" })
  \/ wb_supervisor_node_get_field_return
  \/ field_set_sf_float(Vals)
  \/ field_set_mf_float(NearIndexes, Vals)
  \/ field_insert_mf_float(NearIndexes, Vals)
  \/ wb_supervisor_field_insert_mf_float_return
  \/ field_remove_mf(NearIndexes)
  \/ wb_supervisor_field_remove_mf_return
  \/ field_import_mf_node_from_string(NearIndexes)
  \/ wb_supervisor_field_import_mf_node_from_string_return

SpecInternal == Init /\ [][NextInternal]_vars

\* The contact point queries of nodes found by DEF, over a few time steps.
NextContact ==
  \/ supervisor_write_request
  \/ Simulate
  \/ supervisor_read_answer
  \/ wb_robot_init_return
  \/ robot_step({ 1 })
  \/ wb_robot_step_return
  \/ node_get_number_of_contact_points({ self_node_ref, root_ref, NULL })
  \/ wb_supervisor_node_get_number_of_contact_points_return
  \/ node_get_contact_point({ self_node_ref, root_ref, NULL })
  \/ wb_supervisor_node_get_contact_point_return
  \/ node_get_contact_point_node({ self_node_ref, root_ref, NULL })
  \/ wb_supervisor_node_get_contact_point_node_refreshed
  \/ wb_supervisor_node_get_contact_point_node_return

SpecContact == InitPlain /\ [][NextContact]_vars

\* Reading the children of a robot that may be internal to a PROTO.
NextRoot ==
  \/ supervisor_write_request
  \/ Simulate
  \/ supervisor_read_answer
  \/ wb_robot_init_return
  \/ robot_step({ 0 })
  \/ wb_robot_step_return
  \/ wb_supervisor_node_get_root
  \/ wb_supervisor_node_get_self
  \/ node_get_field({ self_node_ref, NULL }, { "children" })
  \/ wb_supervisor_node_get_field_return
  \/ field_get_mf_node(NearIndexes)
  \/ wb_supervisor_field_get_mf_node_return

SpecRoot == Init /\ [][NextRoot]_vars

\* The indexed operations on the multiple fields of the robot.
NextIndex ==
  \/ supervisor_write_request
  \/ Simulate
  \/ supervisor_read_answer
  \/ wb_robot_init_return
  \/ node_get_field({ self_node_ref }, { "f", "children" })
  \/ wb_supervisor_node_get_field_return
  \/ field_get_mf_float(Indexes)
  \/ wb_supervisor_field_get_mf_float_return
  \/ field_set_mf_float(Indexes, Vals)
  \/ field_insert_mf_float(Indexes, Vals)
  \/ wb_supervisor_field_insert_mf_float_return
  \/ field_remove_mf(Indexes)
  \/ wb_supervisor_field_remove_mf_return
  \/ field_import_mf_node_from_string(Indexes)
  \/ wb_supervisor_field_import_mf_node_from_string_return

SpecIndex == InitPlain /\ [][NextIndex]_vars

\* The rotations about the y axis or about no axis, and the colours without
\* blue, that the setters are tried with.
SomeRotations ==
  { v \in Vectors(4) : /\ v[1] \in { 0, NaN }
                       /\ v[2] \in { 0, 100, FLT_MAX + 1 }
                       /\ v[3] = 0
                       /\ v[4] \in { 157, 0 - (FLT_MAX + 1) } }

SomeColors ==
  { v \in Vectors(3) : v[1] \in { 0, 157, NaN } /\ v[2] \in { 100, FLT_MAX + 1 } /\ v[3] = 0 }

\* The setters and the inserter of floating-point values.
NextValue ==
  \/ supervisor_write_request
  \/ Simulate
  \/ supervisor_read_answer
  \/ wb_robot_init_return
  \/ robot_step({ 0 })
  \/ wb_robot_step_return
  \/ node_get_field({ self_node_ref }, { "s", "f", "rotation", "color" })
  \/ wb_supervisor_node_get_field_return
  \/ field_set_sf_float(Doubles)
  \/ field_set_mf_float({ 0 }, Doubles)
  \/ field_insert_mf_float({ 0 }, Doubles)
  \/ wb_supervisor_field_insert_mf_float_return
  \/ field_set_sf_rotation(SomeRotations)
  \/ field_set_sf_color(SomeColors)

SpecValue == InitPlain /\ [][NextValue]_vars

\* Importing a node into the single-node field of the robot.
NextImport ==
  \/ supervisor_write_request
  \/ Simulate
  \/ supervisor_read_answer
  \/ wb_robot_init_return
  \/ robot_step({ 0 })
  \/ wb_robot_step_return
  \/ node_get_field({ self_node_ref, NULL }, { "n" })
  \/ wb_supervisor_node_get_field_return
  \/ wb_supervisor_field_get_sf_node
  \/ wb_supervisor_field_get_sf_node_return
  \/ wb_supervisor_field_import_sf_node
  \/ wb_supervisor_field_import_sf_node_return
  \/ wb_supervisor_field_remove_sf
  \/ wb_supervisor_field_remove_sf_return

SpecImport == InitPlain /\ [][NextImport]_vars

\* The calls that cache per-node data and the insertion into a multiple
\* field, with the clock running.
NextMutex ==
  \/ supervisor_write_request
  \/ Simulate
  \/ supervisor_read_answer
  \/ wb_robot_init_return
  \/ robot_step({ 1 })
  \/ wb_robot_step_return
  \/ node_get_number_of_contact_points({ self_node_ref, NULL })
  \/ wb_supervisor_node_get_number_of_contact_points_return
  \/ node_get_field({ self_node_ref }, { "f" })
  \/ wb_supervisor_node_get_field_return
  \/ field_insert_mf_float({ 0 }, { 0 })
  \/ wb_supervisor_field_insert_mf_float_return

SpecMutex == InitPlain /\ [][NextMutex]_vars

\* The handle of the robot itself, while nodes are removed and PROTO nodes
\* regenerated.
NextSelf ==
  \/ supervisor_write_request
  \/ Simulate
  \/ supervisor_read_answer
  \/ wb_robot_init_return
  \/ robot_step({ 0 })
  \/ wb_robot_step_return
  \/ wb_supervisor_node_get_self
  \/ wb_supervisor_node_get_from_def
  \/ wb_supervisor_node_get_from_def_return
  \/ wb_supervisor_node_remove
  \/ wb_supervisor_node_remove_return

SpecSelf == Init /\ [][NextSelf]_vars

\* The nodes of the contact points of the nodes found by DEF.
NextTouch ==
  \/ supervisor_write_request
  \/ Simulate
  \/ supervisor_read_answer
  \/ wb_robot_init_return
  \/ wb_supervisor_node_get_from_def
  \/ wb_supervisor_node_get_from_def_return
  \/ wb_supervisor_node_get_contact_point_node
  \/ wb_supervisor_node_get_contact_point_node_refreshed
  \/ wb_supervisor_node_get_contact_point_node_return

SpecTouch == InitPlain /\ [][NextTouch]_vars

\* Field lookups on the robot and on the PROTO node B, in a registry that
\* has room for one field more.
NextLookup ==
  \/ supervisor_write_request
  \/ Simulation(MaxFields + 1)
  \/ supervisor_read_answer
  \/ wb_robot_init_return
  \/ robot_step({ 0 })
  \/ wb_robot_step_return
  \/ wb_supervisor_node_get_from_def
  \/ wb_supervisor_node_get_from_def_return
  \/ node_get_field(NodeArgs, { "s" })
  \/ wb_supervisor_node_get_field_return
  \/ node_get_proto_field(NodeArgs, { "s" })
  \/ wb_supervisor_node_get_proto_field_return

SpecLookup == Init /\ [][NextLookup]_vars

-----------------------------------------------------------------------------
(***************************************************************************)
(* Properties of the pending queue and of the field operations.            *)
(***************************************************************************)
IsSet(r) == r.type = "SET"

FloatGetters == { "wb_supervisor_field_get_sf_float",
                  "wb_supervisor_field_get_mf_float" }
InsertRemoveOps == { "wb_supervisor_field_insert_mf_float",
                     "wb_supervisor_field_remove_mf",
                     "wb_supervisor_field_remove_sf" }

\* C1: at every public API boundary (no supervisor call executing) every
\* request of the pending queue is a SET: no GET, IMPORT, IMPORT_FROM_STRING
\* or REMOVE request is left queued.
C1_OnlySetsQueuedAtBoundary ==
  pc = "idle" =>
    \A i \in 1..Len(field_requests_list) : IsSet(field_requests_list[i])

\* A boundary reached by an insertion or removal that flushed: its request
\* has left the queue for the garbage list.
C1_Witness ==
  /\ pc = "idle"
  /\ call.op \in InsertRemoveOps
  /\ call.valid
  /\ call.flushed
  /\ field_requests_list = << >>
  /\ field_requests_garbage_list # << >>

\* The step is a call of a float getter that passed validation while a SET
\* on the same field and index is queued.
GetterMeetsQueuedSet ==
  /\ pc = "idle"
  /\ call'.op \in FloatGetters
  /\ call'.valid
  /\ Coalesces(call'.field, call'.index)

\* The step is a call of a float setter that passed validation.
FloatSetters == { "wb_supervisor_field_set_sf_float",
                  "wb_supervisor_field_set_mf_float" }

SetterStep ==
  /\ pc = "idle"
  /\ call'.op \in FloatSetters
  /\ call'.valid

\* C2: a getter called on (F, I) while a SET on (F, I) is queued returns the
\* payload of that SET, does not flush and leaves the queue as it is; and a
\* setter leaves a SET with its value queued on (F, I), so that set_sf_float
\* (F, v) followed by get_sf_float(F) returns v.
C2_GetterReturnsQueuedSet ==
  [][ /\ GetterMeetsQueuedSet =>
        /\ call'.ret = QueuedSet(call'.field, call'.index).data
        /\ ~call'.flushed
        /\ pc' = "idle"
        /\ field_requests_list' = field_requests_list
        /\ frame' = frame
      /\ SetterStep =>
           LET pos == QueuedSetPos(field_requests_list', call'.field, call'.index)
           IN  pos # 0 /\ field_requests_list'[pos].data = call'.values[1]
    ]_vars

\* A getter has just returned the value 1 of a queued SET, without a flush,
\* from a field whose record held 0 before.
C2_Witness ==
  /\ pc = "idle"
  /\ call.op \in FloatGetters
  /\ call.valid
  /\ ~call.flushed
  /\ Coalesces(call.field, call.index)
  /\ call.ret = 1
  /\ QueuedSet(call.field, call.index).data = 1

\* The frame that the call in flight has written holds exactly one opcode of
\* this kind, for the field and the index of the call.
OpcodesFor(ops, op, f, index) ==
  { i \in 1..Len(ops) : /\ ops[i].op = op
                        /\ ops[i].node = f.node_unique_id
                        /\ ops[i].fid = f.id
                        /\ ops[i].index = index }

ExpectedOpcode(op) ==
  IF op = "wb_supervisor_field_insert_mf_float"
  THEN "FIELD_INSERT_VALUE" ELSE "FIELD_REMOVE_VALUE"

\* C3: every insert_mf, remove_mf and remove_sf call that passes validation
\* flushes before it returns, whatever the queue holds, and the frame of
\* that flush carries exactly one FIELD_INSERT_VALUE (resp.
\* FIELD_REMOVE_VALUE) opcode for the field and index of the call.
C3_InsertRemoveAlwaysFlush ==
  [][ /\ (pc = "idle" /\ call'.op \in InsertRemoveOps /\ call'.valid)
           => (pc' = "write" /\ call'.flushed)
      /\ (pc = "write" /\ call.op \in InsertRemoveOps)
           => Cardinality(OpcodesFor(frame', ExpectedOpcode(call.op),
                                     Deref(field_list, call.field),
                                     call.index)) = 1
    ]_vars

\* C4: at every API boundary the local count of every registered MF field of
\* a non-node type equals the element count the simulator holds for it.
C4_LocalCountIsSimulatorCount ==
  pc = "idle" =>
    \A i \in 1..Len(field_list) :
      SimCountOf(field_list[i]) # -1 =>
        field_list[i].count = SimCountOf(field_list[i])

\* The step dispatches this kind of message.
Dispatches(op) ==
  /\ pc = "read"
  /\ reply # << >>
  /\ Head(reply).op = op
  /\ reply' = Tail(reply)

\* The step is one of wb_supervisor_field_remove_mf, called with a field of
\* nodes: the call itself or its return from the flush.
RemoveMFOfNodesStep ==
  \/ /\ pc = "idle"
     /\ call'.op = "wb_supervisor_field_remove_mf"
     /\ call'.valid
     /\ FieldAt(field_list, call'.field).type = "MF_NODE"
  \/ /\ Flushed("wb_supervisor_field_remove_mf")
     /\ pc' = "idle"
     /\ Deref(field_list, call.field).type = "MF_NODE"

\* C5: remove_mf on an MF_NODE field never changes the local count itself;
\* when a NODE_REMOVE_NODE reply names the owner node and the name of a
\* registered field with new count n, the count of that field becomes n.
C5_NodeFieldCountFromReply ==
  [][ /\ RemoveMFOfNodesStep => field_list' = field_list
      /\ Dispatches("NODE_REMOVE_NODE") =>
           \A i \in 1..Len(field_list) :
             ( /\ Head(reply).parent >= 0
               /\ field_list[i].node_unique_id = Head(reply).parent
               /\ field_list[i].name = Head(reply).name )
             => /\ Len(field_list') = Len(field_list)
                /\ field_list'[i] = [ field_list[i] EXCEPT !.count = Head(reply).count ]
    ]_vars

\* remove_mf on a field of nodes is back from its flush, and the field, which
\* held at least one node when the call passed validation, now has count 0:
\* the reply has set it.
C5_Witness ==
  /\ Flushed("wb_supervisor_field_remove_mf")
  /\ call.valid
  /\ is_field_ref_valid(field_list, call.field)
  /\ FieldAt(field_list, call.field).type = "MF_NODE"
  /\ FieldAt(field_list, call.field).count = 0

-----------------------------------------------------------------------------
(***************************************************************************)
(* Properties of the registries.                                           *)
(***************************************************************************)
Records(list) == { list[i] : i \in 1..Len(list) }

NotInternal(S) == { x \in S : ~x.is_proto_internal }

\* C6: once the dispatcher has processed NODE_REGENERATED no node and no
\* field with is_proto_internal set remains registered, and every node and
\* field without it is still registered, unchanged.
C6_RegenerationPurgesInternals ==
  [][ Dispatches("NODE_REGENERATED") =>
        /\ Records(node_list') = NotInternal(Records(node_list))
        /\ Records(field_list') = NotInternal(Records(field_list))
        /\ Len(node_list') = Cardinality(Records(node_list'))
        /\ Len(field_list') = Cardinality(Records(field_list'))
    ]_vars

\* The dispatcher has purged the robot's own node, which was internal to a
\* PROTO, during the call in flight; another node than the root and a field
\* are still registered.
C6_Witness ==
  /\ pc = "read"
  /\ call.purged
  /\ ~is_node_ref_valid(node_list, self_node_ref)
  /\ Len(node_list) >= 2
  /\ field_list # << >>

\* The nodes that wb_supervisor_node_get_from_proto_def has flagged, each
\* with the handle P of the PROTO node it was looked up in.
HasParentProto(n) == n.is_proto_internal /\ n.parent_proto # NULL

\* P is registered and not itself internal to a PROTO.
PublicNode(list, p) ==
  is_node_ref_valid(list, p) /\ ~NodeAt(list, p).is_proto_internal

\* C7: for every internal node obtained with node_get_from_proto_def(P, def),
\* P is still a valid handle after the dispatcher processed NODE_REGENERATED,
\* whatever P is (a node obtained through node_get_from_proto_def included).
C7_ParentProtoSurvivesRegeneration ==
  [][ Dispatches("NODE_REGENERATED") =>
        \A i \in 1..Len(node_list) :
          HasParentProto(node_list[i])
          => is_node_ref_valid(node_list', node_list[i].parent_proto)
    ]_vars

\* C7, amended: the same for every P that is registered and not itself
\* internal to a PROTO when NODE_REGENERATED is dispatched.
C7_PublicParentProtoSurvivesRegeneration ==
  [][ Dispatches("NODE_REGENERATED") =>
        \A i \in 1..Len(node_list) :
          ( HasParentProto(node_list[i])
            /\ PublicNode(node_list, node_list[i].parent_proto) )
          => is_node_ref_valid(node_list', node_list[i].parent_proto)
    ]_vars

\* During a step the dispatcher has purged a node that was looked up in a
\* PROTO node P, and P is still registered.
C7_Witness ==
  /\ Flushed("wb_robot_step")
  /\ call.purged
  /\ \E p \in call.parents : is_node_ref_valid(node_list, p)

\* What NODE_REMOVE_NODE(u) makes of a node that is not u.
Orphaned(n, u) == IF n.parent_id = u THEN [ n EXCEPT !.parent_id = -1 ] ELSE n

\* C8: after the dispatcher processed NODE_REMOVE_NODE(u), no node with id u
\* is registered and the handle it had is not valid, no node has parent_id u,
\* every node whose parent was u has parent_id -1 and the other nodes are
\* unchanged.
C8_RemoveNodeUnlinksAndOrphans ==
  [][ Dispatches("NODE_REMOVE_NODE") =>
        LET u == Head(reply).uid
            Others == { i \in 1..Len(node_list) : node_list[i].id # u }
        IN  /\ \A j \in 1..Len(node_list') :
                  node_list'[j].id # u /\ node_list'[j].parent_id # u
            /\ \A i \in 1..Len(node_list) :
                  node_list[i].id = u
                  => ~is_node_ref_valid(node_list', node_list[i].ref)
            /\ Len(node_list') = Cardinality(Others)
            /\ \A i \in Others :
                  \E j \in 1..Len(node_list') :
                    node_list'[j] = Orphaned(node_list[i], u)
    ]_vars

\* wb_supervisor_node_remove has removed a registered node: its handle is not
\* valid any more, and a node that was its child is left with parent_id -1.
C8_Witness ==
  /\ Flushed("wb_supervisor_node_remove")
  /\ call.valid
  /\ ~is_node_ref_valid(node_list, call.node)
  /\ \A i \in 1..Len(node_list) : node_list[i].id # call.index
  /\ \E i \in 1..Len(node_list) :
        node_list[i].id # 0 /\ node_list[i].parent_id = -1

HasDot(def) == \E i \in 1..Len(def) : def[i] = "."

\* The step is a call of wb_supervisor_node_get_from_def that repeats the
\* previous call, which resolved the same expression to a handle.
RepeatedFromDef ==
  /\ pc = "idle"
  /\ call'.op = "wb_supervisor_node_get_from_def"
  /\ call'.repeat

\* The second call returns at once, with the handle of the first.
ServedFromRegistry ==
  /\ pc' = "idle"
  /\ ~call'.flushed
  /\ call'.ret = call'.prev

\* The frame a call of wb_supervisor_node_get_from_def writes has exactly one
\* NODE_GET_FROM_DEF opcode.
OneFromDefOpcode ==
  (pc = "write" /\ call.op = "wb_supervisor_node_get_from_def") =>
    Cardinality({ i \in 1..Len(frame') : frame'[i].op = "NODE_GET_FROM_DEF" }) = 1

\* C9: for every DEF expression d that the simulator resolves, two calls of
\* node_get_from_def(d) with no removal or regeneration between them return
\* the same handle, and only the first one flushes: exactly one
\* NODE_GET_FROM_DEF opcode is written.
C9_SecondLookupIsServedLocally ==
  [][ (RepeatedFromDef => ServedFromRegistry) /\ OneFromDefOpcode ]_vars

\* C9, amended: the same for every expression d without a '.', when the
\* node it resolved to is not registered as internal to a PROTO.
C9_SecondLookupOfPlainDefIsServedLocally ==
  [][ /\ ( RepeatedFromDef /\ ~HasDot(call'.def)
           /\ PublicNode(node_list, call'.prev) ) => ServedFromRegistry
      /\ OneFromDefOpcode
    ]_vars

\* The second of two calls with one expression has returned the handle of
\* the first without a flush; the first one had flushed.
C9_Witness ==
  /\ pc = "idle"
  /\ call.op = "wb_supervisor_node_get_from_def"
  /\ call.repeat
  /\ call.first
  /\ ~HasDot(call.def)
  /\ ~call.flushed
  /\ call.ret # NULL
  /\ call.ret = call.prev

\* C10: wb_supervisor_node_get_from_def never returns a handle whose node
\* has is_proto_internal set, in any reachable state and for any reply.
C10_FromDefNeverReturnsInternal ==
  ( /\ pc = "idle"
    /\ call.op = "wb_supervisor_node_get_from_def"
    /\ call.ret # NULL )
  => PublicNode(node_list, call.ret)

\* The operations that write to a field, and the opcodes they send.
WriterOps ==
  { "wb_supervisor_field_set_sf_float", "wb_supervisor_field_set_mf_float",
    "wb_supervisor_field_insert_mf_float", "wb_supervisor_field_remove_mf",
    "wb_supervisor_field_remove_sf",
    "wb_supervisor_field_import_mf_node_from_string" }

WriteOpcodes ==
  { "FIELD_SET_VALUE", "FIELD_INSERT_VALUE", "FIELD_IMPORT_NODE_FROM_STRING",
    "FIELD_REMOVE_VALUE" }

\* No request of the queue but a GET is for a field flagged internal.
QueueSparesInternals ==
  \A i \in 1..Len(field_requests_list) :
    field_requests_list[i].type # "GET"
    => /\ is_field_ref_valid(field_list, field_requests_list[i].field)
       /\ ~FieldAt(field_list, field_requests_list[i].field).is_proto_internal

\* No writing opcode of the frame names a field flagged internal.
FrameSparesInternals ==
  \A i \in 1..Len(frame) :
    frame[i].op \in WriteOpcodes
    => \A j \in 1..Len(field_list) :
         ( field_list[j].node_unique_id = frame[i].node
           /\ field_list[j].id = frame[i].fid )
         => ~field_list[j].is_proto_internal

\* A writing operation called with a registered field flagged internal.
WriterCalledOnInternal ==
  /\ pc = "idle"
  /\ call'.op \in WriterOps
  /\ is_field_ref_valid(field_list, call'.refused)
  /\ FieldAt(field_list, call'.refused).is_proto_internal

ContactQueries ==
  { "wb_supervisor_node_get_number_of_contact_points",
    "wb_supervisor_node_get_contact_point",
    "wb_supervisor_node_get_contact_point_node" }

\* The positions of the contact point requests in a frame.
ContactRequests(ops) ==
  { i \in 1..Len(ops) : ops[i].op = "NODE_GET_CONTACT_POINTS" }

\* A contact point query is called with a registered node: the request goes
\* out exactly if the time is greater than the stamp of the node, and a
\* query that finds the cache fresh writes no request and leaves the cache
\* as it is; the count it returns is the cached one.
QueryRefreshesStaleCacheOnly ==
  ( pc = "idle" /\ call'.op \in ContactQueries /\ call'.valid ) =>
    LET n == NodeAt(node_list, call'.node)
    IN  /\ (contact_points_node_ref' # NULL) <=> (time > n.contact_points_time_stamp)
        /\ time <= n.contact_points_time_stamp =>
             /\ node_list' = node_list
             /\ call'.op = "wb_supervisor_node_get_number_of_contact_points"
                => ( pc' = "idle" /\ ~call'.flushed
                     /\ call'.ret = n.number_of_contact_points )

\* A frame carries a contact point request only for the node of a query in
\* flight, and no second one for a node and a time.
RequestWrittenOncePerTime ==
  ( pc = "write" /\ ContactRequests(frame') # { } ) =>
    /\ Cardinality(ContactRequests(frame')) = 1
    /\ call.op \in ContactQueries
    /\ \A i \in ContactRequests(frame') :
         /\ frame'[i].node = NodeAt(node_list, call.node).id
         /\ << frame'[i].node, time >> \notin asked

\* C12: a contact point query writes a NODE_GET_CONTACT_POINTS request only
\* when the simulation time is strictly greater than the stamp of the node,
\* so at most one request per node is written per distinct time, and
\* repeated queries at one time return the cached count.
C12_ContactPointsOncePerTime ==
  [][ QueryRefreshesStaleCacheOnly /\ RequestWrittenOncePerTime ]_vars

\* After a step, the number of contact points of a node has been asked for
\* again at a time for which the request had been written, and the call
\* returned the cached count without a flush.
C12_Witness ==
  /\ pc = "idle"
  /\ time > 0
  /\ call.op = "wb_supervisor_node_get_number_of_contact_points"
  /\ call.valid
  /\ ~call.flushed
  /\ << NodeAt(node_list, call.node).id, time >> \in asked
  /\ call.ret = NodeAt(node_list, call.node).number_of_contact_points
  /\ call.ret > 0

\* C13: the root node with id 0 that wb_supervisor_init created is in the
\* node registry in every reachable state, and wb_supervisor_node_get_root
\* returns a handle that passes is_node_ref_valid.
C13_RootStaysRegistered ==
  /\ is_node_ref_valid(node_list, root_ref)
  /\ NodeAt(node_list, root_ref).id = 0
  /\ ( pc = "idle" /\ call.op = "wb_supervisor_node_get_root" )
     => is_node_ref_valid(node_list, call.ret)

\* The node behind a handle is one that wb_supervisor_node_remove must turn
\* down: not registered (or no handle at all), the root, a Viewpoint or a
\* WorldInfo node.
NotToBeRemoved(node) ==
  \/ ~is_node_ref_valid(node_list, node)
  \/ NodeAt(node_list, node).id = 0
  \/ NodeAt(node_list, node).type \in { "VIEWPOINT", "WORLD_INFO" }

RemoveRejectedLocally ==
  /\ ~call'.valid
  /\ pc' = "idle"
  /\ node_to_remove' = NULL
  /\ UNCHANGED << regs, queue, slots, refs, wire >>

\* C14: wb_supervisor_node_remove called with a Viewpoint or WorldInfo node,
\* the root node, no handle or a handle that is not registered is turned down
\* locally: the node-remove slot stays empty, nothing is flushed, and no
\* NODE_REMOVE_NODE opcode is ever written for such a node.
C14_RemoveRejectsProtectedNodes ==
  [][ /\ ( pc = "idle" /\ call'.op = "wb_supervisor_node_remove" )
         => /\ ~call'.valid => NotToBeRemoved(call'.refused) /\ RemoveRejectedLocally
            /\ call'.valid => ~NotToBeRemoved(call'.node) /\ node_to_remove' = call'.node
      /\ \A i \in 1..Len(frame') :
            frame'[i].op = "NODE_REMOVE_NODE"
            => /\ call.op = "wb_supervisor_node_remove" /\ call.valid
               /\ frame'[i].node = call.index
               /\ ~NotToBeRemoved(call.node) ]_vars

\* wb_supervisor_node_remove has just turned down a registered Viewpoint node.
C14_Witness ==
  /\ pc = "idle"
  /\ call.op = "wb_supervisor_node_remove"
  /\ ~call.valid
  /\ is_node_ref_valid(node_list, call.refused)
  /\ NodeAt(node_list, call.refused).type = "VIEWPOINT"
  /\ node_to_remove = NULL

InsertingOps ==
  { "wb_supervisor_field_insert_mf_float",
    "wb_supervisor_field_import_mf_node_from_string" }

IndexedOps ==
  InsertingOps \cup { "wb_supervisor_field_get_mf_float",
                      "wb_supervisor_field_set_mf_float",
                      "wb_supervisor_field_remove_mf" }

\* The type of field an indexed operation works on ("WB_MF": any multiple).
IndexedOpType(op) ==
  IF op = "wb_supervisor_field_import_mf_node_from_string" THEN "MF_NODE"
  ELSE IF op = "wb_supervisor_field_remove_mf" THEN "WB_MF"
  ELSE "MF_FLOAT"

\* The handle the call in progress was given, accepted or not.
HandleGiven(c) == IF c.valid THEN c.field ELSE c.refused

\* The indexes an operation takes on a field that holds count items, and the
\* position that a taken index stands for.
TakenIndexes(op, count) ==
  IF op \in InsertingOps THEN (0 - (count + 1))..count
  ELSE (0 - count)..(count - 1)

Position(op, count, i) ==
  IF i >= 0 THEN i
  ELSE IF op \in InsertingOps THEN i + count + 1 ELSE i + count

Positions(op, count) ==
  IF op \in InsertingOps THEN 0..count ELSE 0..(count - 1)

\* The step is an indexed operation on a registered, writable multiple field
\* of the type that the operation works on.
IndexedCall ==
  /\ pc = "idle"
  /\ call'.op \in IndexedOps
  /\ is_field_ref_valid(field_list, HandleGiven(call'))
  /\ LET f == FieldAt(field_list, HandleGiven(call'))
     IN  /\ f.type \in MFTypes
         /\ IndexedOpType(call'.op) \in { "WB_MF", f.type }
         /\ ~f.is_proto_internal

\* C15: on a multiple field that holds count items, the inserting operations
\* take exactly the indexes -(count+1)..count and the other indexed
\* operations exactly -count..count-1; any other index is turned down with
\* nothing enqueued; a negative index that is taken stands for index+count+1
\* (inserting) or index+count (otherwise); and every request that is
\* enqueued carries a position within 0..count (inserting) or 0..count-1.
C15_IndexRangeAndNormalisation ==
  [][ IndexedCall =>
        LET op == call'.op
            count == FieldAt(field_list, HandleGiven(call')).count
        IN  /\ call'.valid <=> call'.arg \in TakenIndexes(op, count)
            /\ call'.valid => call'.index = Position(op, count, call'.arg)
            /\ ~call'.valid => /\ pc' = "idle"
                               /\ UNCHANGED << regs, queue, slots, wire >>
            /\ Len(field_requests_list') > Len(field_requests_list)
               => LET r == field_requests_list'[Len(field_requests_list')]
                  IN  /\ r.field = call'.field
                      /\ r.index = Position(op, count, call'.arg)
                      /\ r.index \in Positions(op, count) ]_vars

IndexedRequestQueued(op, type, position) ==
  /\ call.op = op
  /\ call.valid
  /\ call.arg < 0
  /\ call.index = position
  /\ field_requests_list # << >>
  /\ LET r == field_requests_list[Len(field_requests_list)]
     IN  r.type = type /\ r.field = call.field /\ r.index = position

\* An insertion at index -2 of a field that holds one item is queued for
\* position 0 and is about to be flushed.
C15_Witness ==
  /\ IndexedRequestQueued("wb_supervisor_field_insert_mf_float", "IMPORT", 0)
  /\ call.arg = -2
  /\ FieldAt(field_list, call.field).count = 1
  /\ pc = "write"

FloatOps ==
  { "wb_supervisor_field_set_sf_float", "wb_supervisor_field_set_mf_float",
    "wb_supervisor_field_insert_mf_float" }

ValueOps ==
  FloatOps \cup { "wb_supervisor_field_set_sf_rotation",
                  "wb_supervisor_field_set_sf_color" }

\* A double that no field takes: NaN, or beyond FLT_MAX either way.
BadDouble(v) == v = NaN \/ v \notin (0 - FLT_MAX)..FLT_MAX

\* The value that the call was given is one that the operation must turn
\* down: a bad double, a rotation whose axis is (0, 0, 0), a colour with a
\* channel outside [0, 1].
InvalidValue(c) ==
  \/ \E i \in 1..Len(c.values) : BadDouble(c.values[i])
  \/ /\ c.op = "wb_supervisor_field_set_sf_rotation"
     /\ Len(c.values) = 4
     /\ << c.values[1], c.values[2], c.values[3] >> = << 0, 0, 0 >>
  \/ /\ c.op = "wb_supervisor_field_set_sf_color"
     /\ \E i \in 1..Len(c.values) : c.values[i] \notin 0..100

\* The rotation [0, 1, 0, 1.57].
QuarterTurn == << 0, 100, 0, 157 >>

SetsQueuedFor(q, field) ==
  { i \in 1..Len(q) : q[i].field = field /\ q[i].type = "SET" }

\* C16: a setter or inserter that is given an invalid value (NaN, a value
\* beyond FLT_MAX either way, a rotation with the axis (0, 0, 0), a colour
\* with a channel outside [0, 1]) enqueues nothing and leaves the queue, the
\* registries and the wire as they are; the rotation [0, 1, 0, 1.57] given
\* for a writable SF_ROTATION field leaves exactly one SET with that payload
\* queued for the field.
C16_InvalidValuesAreTurnedDown ==
  [][ ( pc = "idle" /\ call'.op \in ValueOps ) =>
        /\ InvalidValue(call')
           => /\ ~call'.valid
              /\ pc' = "idle"
              /\ UNCHANGED << regs, queue, slots, wire >>
        /\ ( /\ call'.op = "wb_supervisor_field_set_sf_rotation"
             /\ call'.values = QuarterTurn
             /\ is_field_ref_valid(field_list, HandleGiven(call'))
             /\ FieldAt(field_list, HandleGiven(call')).type = "SF_ROTATION"
             /\ ~FieldAt(field_list, HandleGiven(call')).is_proto_internal )
           => /\ call'.valid
              /\ Cardinality(SetsQueuedFor(field_requests_list', call'.field)) = 1
              /\ \A i \in SetsQueuedFor(field_requests_list', call'.field) :
                    /\ field_requests_list'[i].data = QuarterTurn
                    /\ field_requests_list'[i].index = -1 ]_vars

\* A rotation with the axis (0, 0, 0) has just been turned down for a field
\* on which the SET of [0, 1, 0, 1.57] is still queued.
C16_Witness ==
  /\ pc = "idle"
  /\ call.op = "wb_supervisor_field_set_sf_rotation"
  /\ ~call.valid
  /\ call.values = << 0, 0, 0, 157 >>
  /\ is_field_ref_valid(field_list, call.refused)
  /\ FieldAt(field_list, call.refused).type = "SF_ROTATION"
  /\ \E i \in SetsQueuedFor(field_requests_list, call.refused) :
        field_requests_list[i].data = QuarterTurn

FieldOperations ==
  { "wb_supervisor_field_get_sf_float", "wb_supervisor_field_get_mf_float",
    "wb_supervisor_field_get_sf_node", "wb_supervisor_field_get_mf_node",
    "wb_supervisor_field_set_sf_float", "wb_supervisor_field_set_mf_float",
    "wb_supervisor_field_set_sf_rotation", "wb_supervisor_field_set_sf_color",
    "wb_supervisor_field_insert_mf_float", "wb_supervisor_field_remove_mf",
    "wb_supervisor_field_remove_sf",
    "wb_supervisor_field_import_mf_node_from_string" }

\* C17: a field operation that is given no handle, or a handle that is not
\* in the field registry, is a no-op: it reads nothing through the handle,
\* changes no engine state, sends nothing and returns its sentinel to a
\* caller that goes on running.
C17_InvalidHandleIsNoOp ==
  [][ ( /\ pc = "idle"
        /\ call'.op \in FieldOperations
        /\ ~is_field_ref_valid(field_list, HandleGiven(call')) )
      => /\ ~call'.valid
         /\ ~call'.undefined
         /\ call'.ret = NULL
         /\ pc' = "idle"
         /\ UNCHANGED << regs, queue, slots, wire >> ]_vars

FieldGetters ==
  { "wb_supervisor_field_get_sf_float", "wb_supervisor_field_get_mf_float",
    "wb_supervisor_field_get_sf_node", "wb_supervisor_field_get_mf_node" }

\* C18: when the reply says that the object is not there, the caller in
\* flight gets the sentinel and the pending slot is cleared:
\* wb_supervisor_node_get_field returns no handle and adds no field record,
\* and a field getter returns zero or no node, not a value cached before,
\* with the sent-GET slot empty.
C18_VanishedObjectGivesSentinel ==
  ( pc = "idle" /\ call.vanished )
  => /\ call.op = "wb_supervisor_node_get_field"
        => /\ call.ret = NULL
           /\ requested_field_name = NullName
     /\ call.op \in FieldGetters
        => /\ sent_field_get_request = NoRequest
           /\ call.ret \in { 0, NULL }

\* The file name has an extension, after a name that is not empty.
HasExtension(filename) ==
  /\ filename # NullStr
  /\ \E i \in 2..Len(filename) : filename[i] = "."

EndsWithWbo(filename) ==
  /\ Len(filename) >= 2
  /\ filename[Len(filename) - 1] = "."
  /\ filename[Len(filename)] = "wbo"

\* The step is a call of wb_supervisor_field_import_sf_node on a registered,
\* writable, empty SF_NODE field with a file name that has an extension.
ImportIntoEmptyField ==
  /\ pc = "idle"
  /\ call'.op = "wb_supervisor_field_import_sf_node"
  /\ is_field_ref_valid(field_list, HandleGiven(call'))
  /\ LET f == FieldAt(field_list, HandleGiven(call'))
     IN  f.type = "SF_NODE" /\ f.data = 0 /\ ~f.is_proto_internal
  /\ HasExtension(call'.def)

\* C19: on an empty, writable SF_NODE field wb_supervisor_field_import_sf_node
\* takes a file name whose extension is .wbo (one IMPORT request is appended
\* and flushed) and turns down a file name with any other extension, with
\* nothing enqueued.
C19_ImportSFNodeTakesWboOnly ==
  [][ ImportIntoEmptyField =>
        IF EndsWithWbo(call'.def)
        THEN /\ call'.valid
             /\ pc' = "write"
             /\ Len(field_requests_list') = Len(field_requests_list) + 1
             /\ field_requests_list'[Len(field_requests_list')].type = "IMPORT"
        ELSE /\ ~call'.valid
             /\ pc' = "idle"
             /\ field_requests_list' = field_requests_list ]_vars

\* C20: a public API call writes engine state (slots, queue, registries,
\* cached node attributes such as contact_points_time_stamp, field counts)
\* only while it holds the step mutex, and it has released the mutex as often
\* as it acquired it when it returns.
C20_WritesHoldStepMutex ==
  /\ call.unlocked = { }
  /\ call.mutex \in 0..1
  /\ pc = "idle" => call.mutex = 0

\* C21: the count of every registered SF field is -1, whatever calls were
\* made on it; only the MF fields carry a count that is not negative.
C21_SingleFieldsHaveNoCount ==
  \A i \in 1..Len(field_list) :
     field_list[i].type \in SFTypes => field_list[i].count = -1

\* C22: every registered node has a parent PROTO exactly when it is flagged as
\* internal to a PROTO, and that parent is itself a registered node.
C22_ParentProtoIffInternal ==
  \A i \in 1..Len(node_list) :
     /\ (node_list[i].parent_proto # NULL) = node_list[i].is_proto_internal
     /\ node_list[i].parent_proto # NULL
          => is_node_ref_valid(node_list, node_list[i].parent_proto)

\* C23: the step that dispatches the CONFIGURE reply leaves the self node in
\* the registry as a Robot whose is_proto and is_proto_internal are the two
\* flag bytes of the reply, and wb_supervisor_node_get_self returns the handle
\* of that node.
ConfigureDispatched ==
  pc = "read" /\ reply # << >> /\ Head(reply).op = "CONFIGURE"

C23_ConfigureRegistersSelf ==
  [][ /\ ConfigureDispatched =>
           /\ is_node_ref_valid(node_list', self_node_ref')
           /\ NodeAt(node_list', self_node_ref').id = Head(reply).uid
           /\ NodeAt(node_list', self_node_ref').type = "ROBOT"
           /\ NodeAt(node_list', self_node_ref').is_proto = Head(reply).is_proto
           /\ NodeAt(node_list', self_node_ref').is_proto_internal
                = Head(reply).internal
      /\ ( pc = "idle" /\ call'.op = "wb_supervisor_node_get_self" ) =>
           call'.ret = self_node_ref
    ]_vars

IsGetValue(o) == o.op = "FIELD_GET_VALUE"

\* C24: the sent-GET slot holds at most one request.  It is empty when the
\* serializer is about to drain a queue that holds a GET, and that queue holds
\* one GET only (the assertion of supervisor_write_request); a frame carries
\* at most one FIELD_GET_VALUE; the slot is filled when the FIELD_GET_VALUE
\* answer is dispatched (the assertion of supervisor_read_answer); and it is
\* empty at every return to the caller, so also when a getter is called (the
\* assertion of field_operation_with_data) and when it returns.
C24_SentGetSlotHoldsOneRequest ==
  /\ ( pc = "write" /\ DrainsQueue /\ SelectSeq(field_requests_list, IsGet) # << >> )
       => /\ sent_field_get_request = NoRequest
          /\ Len(SelectSeq(field_requests_list, IsGet)) = 1
  /\ Len(SelectSeq(frame, IsGetValue)) <= 1
  /\ ( pc = "read" /\ reply # << >> /\ Head(reply).op = "FIELD_GET_VALUE" )
       => sent_field_get_request # NoRequest
  /\ pc = "idle" => sent_field_get_request = NoRequest

\* A getter has returned after a flush whose frame carried its GET.
C24_Witness ==
  /\ pc = "idle"
  /\ call.op \in FieldGetters
  /\ call.valid
  /\ call.flushed
  /\ sent_field_get_request = NoRequest
  /\ \E i \in 1..Len(field_list) : field_list[i].data # 0

SetterMeetsQueuedSet == SetterStep /\ Coalesces(call'.field, call'.index)

\* The FIELD_SET_VALUE opcodes of a frame for the field and index of the
\* request r.
SetValuesFor(ops, r) ==
  LET f == Deref(field_list, r.field)
      Hit(o) == /\ o.op = "FIELD_SET_VALUE"
                /\ o.node = f.node_unique_id
                /\ o.fid = f.id
                /\ o.index = r.index
  IN  SelectSeq(ops, Hit)

\* C25: a setter called on (F, I) while a SET on (F, I) is queued changes
\* only the payload of that SET: the queue keeps its length and its order.
\* No other step than a setter call or a drain touches the queued SETs, and
\* the frame that drains the queue carries, for each queued SET, exactly one
\* FIELD_SET_VALUE on its field and index, with the payload last written.
C25_SetterOverwritesQueuedSet ==
  [][ /\ SetterMeetsQueuedSet =>
           LET pos == QueuedSetPos(field_requests_list, call'.field, call'.index)
           IN  field_requests_list' =
                 [ field_requests_list EXCEPT ![pos].data = call'.values[1] ]
      /\ ( pc = "write" /\ DrainsQueue ) =>
           \A p \in 1..Len(field_requests_list) :
              IsSet(field_requests_list[p]) =>
                /\ Len(SetValuesFor(frame', field_requests_list[p])) = 1
                /\ SetValuesFor(frame', field_requests_list[p])[1].data
                     = field_requests_list[p].data
      /\ ( pc # "write" /\ ~( pc = "idle" /\ call'.op \in FloatSetters ) ) =>
           SelectSeq(field_requests_list', IsSet)
             = SelectSeq(field_requests_list, IsSet)
    ]_vars

\* A setter has just returned with its value 1 in the first request of the
\* queue while a SET on another element, queued before the call, follows it:
\* the call overwrote the SET it met and appended nothing.
C25_Witness ==
  /\ pc = "idle"
  /\ call.op \in FloatSetters
  /\ call.valid
  /\ Len(field_requests_list) = 2
  /\ IsSet(field_requests_list[1])
  /\ IsSet(field_requests_list[2])
  /\ field_requests_list[1].field = call.field
  /\ field_requests_list[1].index = call.index
  /\ field_requests_list[1].data = 1
  /\ call.values = << 1 >>
  /\ field_requests_list[2].index # call.index

FieldOpcodes ==
  { "FIELD_GET_VALUE", "FIELD_SET_VALUE", "FIELD_INSERT_VALUE",
    "FIELD_IMPORT_NODE_FROM_STRING", "FIELD_REMOVE_VALUE" }

IsFieldOpcode(o) == o.op \in FieldOpcodes

\* The field and index of each queued SET, in the order of the queue.
QueuedSetKeys(q) ==
  LET sets == SelectSeq(q, IsSet)
  IN  [ i \in 1..Len(sets) |-> << sets[i].field, sets[i].index >> ]

\* C26: each queued SET is written once.  A frame that carries a handle
\* resolution writes no field request and leaves the queue, the garbage list
\* and the sent-GET slot as they are; any other frame, and so the frame of
\* each simulation step, writes every queued request and leaves the queue
\* empty; and between two frames the queued SETs stay queued, in their order.
C26_QueuedSetIsWrittenOnce ==
  [][ /\ ( pc = "write" /\ ResolutionOps # << >> ) =>
           /\ SelectSeq(frame', IsFieldOpcode) = << >>
           /\ UNCHANGED queue
      /\ ( pc = "write" /\ ResolutionOps = << >> ) =>
           /\ SelectSeq(frame', IsFieldOpcode) = QueueOps(field_requests_list)
           /\ field_requests_list' = << >>
      /\ ( pc = "write" /\ call.op = "wb_robot_step" ) => ResolutionOps = << >>
      /\ pc # "write" =>
           /\ Len(QueuedSetKeys(field_requests_list'))
                >= Len(QueuedSetKeys(field_requests_list))
           /\ SubSeq(QueuedSetKeys(field_requests_list'), 1,
                     Len(QueuedSetKeys(field_requests_list)))
                = QueuedSetKeys(field_requests_list)
    ]_vars

\* wb_supervisor_node_get_field has written a frame that resolves a field
\* name while a SET is queued: the frame carries that opcode only and the
\* SET is still queued.
C26_Witness ==
  /\ pc = "sim"
  /\ call.op = "wb_supervisor_node_get_field"
  /\ Len(frame) = 1
  /\ frame[1].op = "FIELD_GET_FROM_NAME"
  /\ field_requests_list # << >>
  /\ IsSet(field_requests_list[1])

\* What identifies a queued request, its payload apart.
RequestKeys(q) ==
  [ i \in 1..Len(q) |-> << q[i].type, q[i].field, q[i].index >> ]

\* C27: the field requests reach the wire in the order of their first
\* append.  Between two frames the queue changes at its tail only: a call
\* appends at most one request after those already queued, which keep their
\* positions (a coalesced SET too, only its payload changes).  A frame that
\* drains the queue writes one opcode per request, in the order of the queue,
\* and leaves no older request behind for a later frame.
C27_FieldRequestsAreWrittenInOrder ==
  [][ /\ pc # "write" =>
           /\ Len(field_requests_list') \in
                { Len(field_requests_list), Len(field_requests_list) + 1 }
           /\ \A p \in 1..Len(field_requests_list) :
                 RequestKeys(field_requests_list')[p]
                   = RequestKeys(field_requests_list)[p]
      /\ ( pc = "write" /\ DrainsQueue ) =>
           /\ Len(SelectSeq(frame', IsFieldOpcode)) = Len(field_requests_list)
           /\ \A p \in 1..Len(field_requests_list) :
                 SelectSeq(frame', IsFieldOpcode)[p]
                   = FieldOp(field_requests_list[p],
                             Deref(field_list, field_requests_list[p].field))
           /\ field_requests_list' = << >>
      /\ ( pc = "write" /\ ~DrainsQueue ) =>
           field_requests_list' = field_requests_list
    ]_vars

\* The frame of a getter carries the SET that was queued before the call and
\* then the GET of the call.
C27_Witness ==
  /\ pc = "sim"
  /\ call.op \in FloatGetters
  /\ Len(frame) = 2
  /\ frame[1].op = "FIELD_SET_VALUE"
  /\ frame[2].op = "FIELD_GET_VALUE"

StepGlobalPriority ==
  << "SIMULATION_CHANGE_MODE", "SIMULATION_QUIT", "SIMULATION_RESET",
     "RELOAD_WORLD", "SIMULATION_RESET_PHYSICS", "LOAD_WORLD" >>

StepSlotsSet ==
  << simulation_change_mode, simulation_quit, simulation_reset, world_reload,
     simulation_reset_physics, world_to_load # NullStr >>

IsStepGlobal(o) == \E k \in 1..6 : o.op = StepGlobalPriority[k]

\* The place of an opcode in the frame: step-global, handle resolution or
\* field request, label, node-remove, per-node request, export, VR headset.
OpcodeRank(o) ==
  CASE IsStepGlobal(o) -> 1
    [] o.op \in { "NODE_GET_FROM_ID", "NODE_GET_FROM_DEF", "NODE_GET_FROM_TAG",
                  "NODE_GET_SELECTED", "FIELD_GET_FROM_NAME" } -> 2
    [] o.op \in FieldOpcodes -> 2
    [] o.op = "SET_LABEL" -> 3
    [] o.op = "NODE_REMOVE_NODE" -> 4
    [] o.op = "NODE_GET_CONTACT_POINTS" -> 5
    [] o.op = "EXPORT_IMAGE" -> 6
    [] o.op = "VIRTUAL_REALITY_HEADSET_IS_USED" -> 7

\* C29: a frame carries at most one step-global opcode, that of the first
\* slot set in the order change-mode, quit, reset, reload-world,
\* reset-physics, load-world; writing it clears that slot and leaves the
\* other step-global slots as they are, for a later frame.  In a frame the
\* opcodes come in the order step-global, handle resolution or field
\* requests, labels, node-remove, per-node requests, exports, VR headset.
C29_OneStepGlobalOpcodePerFrame ==
  [][ pc = "write" =>
        LET set == { k \in 1..6 : StepSlotsSet[k] }
            written == SelectSeq(frame', IsStepGlobal)
        IN  /\ Len(written) = IF set = { } THEN 0 ELSE 1
            /\ set # { } => written[1].op = StepGlobalPriority[Min(set)]
            /\ \A k \in 1..6 :
                  StepSlotsSet'[k] = ( StepSlotsSet[k] /\ ( k # Min(set) ) )
            /\ \A i, j \in 1..Len(frame') :
                  i < j => OpcodeRank(frame'[i]) <= OpcodeRank(frame'[j])
    ]_vars

\* The frame of wb_supervisor_simulation_quit has been written with a SET
\* queued: it carries the quit opcode and then the SET, and the slot is
\* clear.
C29_Witness ==
  /\ pc = "sim"
  /\ call.op = "wb_supervisor_simulation_quit"
  /\ Len(frame) = 2
  /\ frame[1].op = "SIMULATION_QUIT"
  /\ frame[2].op = "FIELD_SET_VALUE"
  /\ ~simulation_quit

\* C30: whenever control is with the caller, every transient slot of the
\* serializer is empty: no node id, DEF name, device tag, selection request
\* or field name is waiting to be resolved, proto_id and
\* allow_search_in_proto are reset, and no node is waiting to be removed or
\* queried for its contact points.
C30_SlotsAreEmptyAtBoundary ==
  pc = "idle" =>
    /\ node_id = -1
    /\ node_def_name = NullStr
    /\ node_tag = -1
    /\ ~node_get_selected
    /\ requested_field_name = NullName
    /\ proto_id = -1
    /\ ~allow_search_in_proto
    /\ node_to_remove = NULL
    /\ contact_points_node_ref = NULL
    /\ ResolutionOps = << >>
    /\ DrainsQueue

\* wb_supervisor_node_get_from_proto_def has returned a node after a flush
\* that carried the DEF name and the id of the PROTO.
C30_Witness ==
  /\ pc = "idle"
  /\ call.op = "wb_supervisor_node_get_from_proto_def"
  /\ call.flushed
  /\ call.ret # NULL
  /\ node_def_name = NullStr
  /\ proto_id = -1

-----------------------------------------------------------------------------
(***************************************************************************)
(* Properties of the wire layout of the field requests.                    *)
(***************************************************************************)
\* The FIELD_INSERT_VALUE opcodes of the frame written.
InsertOps == { i \in 1..Len(frame) : frame[i].op = "FIELD_INSERT_VALUE" }

\* The field type is on the wire, between the field id and the index.
InsertCarriesFieldType == \A i \in InsertOps : frame[i].ftype # ""

InsertIndexIsNonNegative ==
  \A i \in InsertOps : frame[i].has_index /\ frame[i].index >= 0

\* C31: every FIELD_INSERT_VALUE of a frame carries what a FIELD_SET_VALUE
\* carries (node uid, field id, field type, index, payload), and its index is
\* not negative.
C31_InsertHasSetLayout == InsertCarriesFieldType /\ InsertIndexIsNonNegative

\* The requests of the frame written that are on an SF field.
SingleFieldOps ==
  { i \in 1..Len(frame) :
      /\ IsFieldOpcode(frame[i])
      /\ FieldTypeOf(FieldNameOf(frame[i].fid)) \in SFTypes }

\* C32: no element index goes to the wire for an SF field: a FIELD_GET_VALUE on
\* it carries no index, and every other request on it carries -1.
C32_SingleFieldsAreWrittenWithoutIndex ==
  \A i \in SingleFieldOps :
     IF frame[i].op = "FIELD_GET_VALUE"
     THEN ~frame[i].has_index
     ELSE frame[i].index = -1

-----------------------------------------------------------------------------
(***************************************************************************)
(* Properties of the life of a request record.                             *)
(***************************************************************************)
\* The number of records equal to r that the engine holds: in the pending
\* queue, on the garbage list and in the sent-GET slot.
Occurrences(r, q) == Cardinality({ i \in 1..Len(q) : q[i] = r })

Held(r, pending, garbage, sent) ==
  Occurrences(r, pending) + Occurrences(r, garbage) + (IF sent = r THEN 1 ELSE 0)

RecordsHeld ==
  { field_requests_list[i] : i \in 1..Len(field_requests_list) }
    \cup { field_requests_garbage_list[i] : i \in 1..Len(field_requests_garbage_list) }
    \cup ({ sent_field_get_request } \ { NoRequest })

SerializerDrains == pc = "write" /\ DrainsQueue

DispatcherRuns == pc = "read" /\ reply # << >> /\ reply' = Tail(reply)

\* C33: the serializer moves each request that is not a GET to the garbage
\* list and the GET to the slot, and neither loses nor duplicates a record;
\* the garbage list shrinks in a run of the reply dispatcher only, which comes
\* after the frame was written, and is empty after every such run.
C33_RequestsAreFreedAfterTheReply ==
  [][ /\ SerializerDrains =>
           /\ \A r \in RecordsHeld :
                Held(r, field_requests_list', field_requests_garbage_list',
                     sent_field_get_request')
                  = Held(r, field_requests_list, field_requests_garbage_list,
                         sent_field_get_request)
           /\ \A i \in 1..Len(field_requests_list) :
                IF IsGet(field_requests_list[i])
                THEN sent_field_get_request' = field_requests_list[i]
                ELSE Occurrences(field_requests_list[i], field_requests_garbage_list') > 0
      /\ Len(field_requests_garbage_list') < Len(field_requests_garbage_list)
           => DispatcherRuns
      /\ DispatcherRuns => field_requests_garbage_list' = << >>
    ]_vars

\* A frame with a SET and a GET has been written and is with the simulator:
\* the SET is on the garbage list and the GET in the slot.
C33_Witness ==
  /\ pc = "sim"
  /\ \E i \in 1..Len(frame) : frame[i].op = "FIELD_SET_VALUE"
  /\ \E i \in 1..Len(frame) : frame[i].op = "FIELD_GET_VALUE"
  /\ Len(field_requests_garbage_list) > 0
  /\ sent_field_get_request # NoRequest

-----------------------------------------------------------------------------
(***************************************************************************)
(* Properties of the handles that the lookups return.                      *)
(***************************************************************************)
\* A lookup by id returns after its flush.
ByIdLookupReturns ==
  /\ pc = "read" /\ reply = << >> /\ pc' = "idle"
  /\ call.op \in { "wb_supervisor_node_get_from_id",
                   "wb_supervisor_node_get_parent_node" }

\* C34: a lookup by id returns no handle or the handle of a registered node
\* that has the id asked for, whatever else the reply frame carried.
C34_ByIdLookupReturnsTheIdAskedFor ==
  [][ ByIdLookupReturns =>
        \/ call'.ret = NULL
        \/ /\ is_node_ref_valid(node_list', call'.ret)
           /\ NodeAt(node_list', call'.ret).id = call.index
    ]_vars

FieldLookups ==
  { "wb_supervisor_node_get_field", "wb_supervisor_node_get_proto_field" }

\* A field lookup returns after its flush: node_ref and requested_field_name
\* hold the id of its node and the name it asked for.
FieldLookupReturns ==
  /\ pc = "read" /\ reply = << >> /\ pc' = "idle"
  /\ call.op \in FieldLookups

\* C35: a field lookup that flushed returns no handle or the handle of a
\* registered field of the node and with the name asked for, whatever else
\* the reply frame carried.
C35_FieldLookupReturnsTheFieldAskedFor ==
  [][ FieldLookupReturns =>
        \/ call'.ret = NULL
        \/ /\ is_field_ref_valid(field_list', call'.ret)
           /\ FieldAt(field_list', call'.ret).node_unique_id = node_ref
           /\ FieldAt(field_list', call'.ret).name = call.name
    ]_vars

\* The last call was this field lookup and it returned a registered field.
Returned(op) ==
  /\ pc = "idle"
  /\ call.op = op
  /\ is_field_ref_valid(field_list, call.ret)

\* The node that the field returned belongs to is registered and is not
\* internal to a PROTO.
ReturnedFieldOfPublicNode ==
  LET n == find_node_by_id(node_list, FieldAt(field_list, call.ret).node_unique_id)
  IN  n # NULL /\ ~NodeAt(node_list, n).is_proto_internal

\* C36: wb_supervisor_node_get_field on a node that is not internal returns a
\* writable handle (the simulator reports no field as internal to a lookup
\* that does not search in the PROTO), and wb_supervisor_node_get_proto_field
\* returns a read-only one, whichever of the two was called first with the
\* node and the name.
C36_LookupDecidesWritability ==
  /\ ( Returned("wb_supervisor_node_get_field") /\ ReturnedFieldOfPublicNode )
       => ~FieldAt(field_list, call.ret).is_proto_internal
  /\ Returned("wb_supervisor_node_get_proto_field")
       => FieldAt(field_list, call.ret).is_proto_internal

-----------------------------------------------------------------------------
(***************************************************************************)
(* Properties of the handles that the engine itself keeps.                 *)
(***************************************************************************)
\* The serializer is about to write the requests of the queue.
RequestsSerialized == pc = "write" /\ DrainsQueue

\* The dispatcher is about to take the answer to the GET of the slot.
GetValueDispatched ==
  /\ pc = "read" /\ reply # << >>
  /\ Head(reply).op = "FIELD_GET_VALUE"
  /\ sent_field_get_request # NoRequest

\* C37: the field of each request is in the field registry when the
\* serializer writes the request, and the field of the GET in the slot is in
\* the registry when the dispatcher takes its answer, wherever in the frame
\* that answer is.
C37_RequestsReferToRegisteredFields ==
  /\ RequestsSerialized =>
       \A i \in 1..Len(field_requests_list) :
          is_field_ref_valid(field_list, field_requests_list[i].field)
  /\ GetValueDispatched =>
       is_field_ref_valid(field_list, sent_field_get_request.field)

\* C38: once CONFIGURE has been dispatched, the handle of the robot itself is
\* in the node registry, and wb_supervisor_node_get_self returns a handle that
\* is in it.
C38_SelfStaysRegistered ==
  /\ self_node_ref # NULL => is_node_ref_valid(node_list, self_node_ref)
  /\ ( pc = "idle" /\ call.op = "wb_supervisor_node_get_self" )
       => is_node_ref_valid(node_list, call.ret)

-----------------------------------------------------------------------------
(***************************************************************************)
(* Properties of the registries.                                           *)
(***************************************************************************)
UniqueNodeIds ==
  \A i, j \in 1..Len(node_list) : node_list[i].id = node_list[j].id => i = j

UniqueFieldKeys ==
  \A i, j \in 1..Len(field_list) :
     ( /\ field_list[i].node_unique_id = field_list[j].node_unique_id
       /\ field_list[i].name = field_list[j].name ) => i = j

\* The id that the message at the head of the reply makes the dispatcher
\* pass to add_node_to_list, 0 when it passes none.
UpsertedId ==
  IF pc # "read" \/ reply = << >> THEN 0
  ELSE LET m == Head(reply)
       IN  CASE m.op = "NODE_GET_FROM_DEF" -> m.uid
             [] m.op \in { "NODE_GET_SELECTED", "NODE_GET_FROM_ID", "NODE_GET_FROM_TAG" } ->
                  IF ByIdAccepted(m) THEN m.uid ELSE 0
             [] m.op = "FIELD_GET_VALUE" ->
                  IF /\ GetValueApplies(m)
                     /\ IsNodeType(Deref(field_list, sent_field_get_request.field).type)
                  THEN m.val ELSE 0
             [] OTHER -> 0

UpsertOfKnownId ==
  UpsertedId # 0 /\ find_node_by_id(node_list, UpsertedId) # NULL

\* C39: no two registered nodes have the same id and no two registered
\* fields the same node id and name; the upsert of an id that is registered
\* adds no node and changes nothing but the DEF name of the node with that id.
C39_RegistriesHoldNoDuplicates ==
  /\ [](UniqueNodeIds /\ UniqueFieldKeys)
  /\ [][ UpsertOfKnownId =>
           /\ Len(node_list') = Len(node_list)
           /\ \A i \in 1..Len(node_list) :
                /\ [ node_list'[i] EXCEPT !.def_name = node_list[i].def_name ]
                     = node_list[i]
                /\ node_list[i].id # UpsertedId => node_list'[i] = node_list[i]
       ]_vars

\* The simulator has answered a lookup with the id of a node that is
\* registered, while the field registry holds two fields.
C39_Witness ==
  /\ UpsertOfKnownId
  /\ Len(field_list) = 2

\* The last call was the lookup of the node of a contact point and it
\* returned a registered node that the simulator reports as internal to a
\* PROTO.
InternalContactNodeReturned ==
  /\ pc = "idle"
  /\ call.op = "wb_supervisor_node_get_contact_point_node"
  /\ is_node_ref_valid(node_list, call.ret)
  /\ WorldInternal(NodeAt(node_list, call.ret).id)

\* C40: a node that the simulator reports as internal to a PROTO and that
\* the lookup of a contact point registers is flagged is_proto_internal in
\* the registry.
C40_InternalContactNodesAreFlagged ==
  InternalContactNodeReturned => NodeAt(node_list, call.ret).is_proto_internal

=============================================================================
